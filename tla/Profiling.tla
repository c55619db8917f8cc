----------------------------- MODULE Profiling -----------------------------
(***************************************************************************)
(* The two profilers: the one that records what the build threads do       *)
(* (src/src/Profiler.cpp) and the one that counts what the build scripts   *)
(* call (LuaProfiler.cpp).                                                 *)
(***************************************************************************)
EXTENDS Integers, SequencesExt

CONSTANT MaxEvents    \* kProfilerThreadMaxEvents: 32 * 1024

\* ProfilerThread.  A duration is -1 until the event ends.
ThreadInit == [events |-> <<>>, isBegin |-> FALSE]

\* ProfilerBeginImpl: a full thread warns that the event won't be recorded.
ProfilerBeginImpl(t, name, now) ==
  IF Len(t.events) >= MaxEvents THEN [t EXCEPT !.isBegin = TRUE]
  ELSE [events |-> Append(t.events, [time |-> now, name |-> name, duration |-> -1]),
        isBegin |-> TRUE]

\* ProfilerEndImpl: the count never exceeds the maximum, so the early return is
\* never taken, and the last event gets the duration.
ProfilerEndImpl(t, now) ==
  LET last == Len(t.events)
  IN IF last > MaxEvents THEN [t EXCEPT !.isBegin = FALSE]
     ELSE [events |-> [t.events EXCEPT ![last].duration = now - t.events[last].time],
           isBegin |-> FALSE]

\* ProfilerDestroy ends what has begun.
ProfilerDestroy(t, now) == IF t.isBegin THEN ProfilerEndImpl(t, now) ELSE t

-----------------------------------------------------------------------------
(* LuaProfiler.  An invocation is known by its place in the sequence of    *)
(* all that were allocated; zero is the null pointer.                      *)

CONSTANT FunctionHash(_)   \* of a function's description

RECURSIVE XorBits(_, _, _)
XorBits(a, b, bits) ==
  IF bits = 0 THEN 0 ELSE ((a + b) % 2) + 2 * XorBits(a \div 2, b \div 2, bits - 1)

\* A state: all invocations, the table of chains and the current invocation.
\* RehashInvocationTable is called once: m_InvocationCount stays zero.
TableInit(size) == [all |-> <<>>, table |-> [i \in 0 .. size - 1 |-> <<>>], current |-> 0]

\* Slip: the parent is taken for granted when the hashes agree.
SameInvocation_ByHash(i, f, hash, parent) == i.hash = hash /\ i.function = f

\* The condition in PushInvocation's loop, with MatchInvocation, which compares the
\* parents as pointers.
SameInvocation(i, f, hash, parent) == i.hash = hash /\ i.function = f /\ i.parent = parent

\* PushInvocation: the invocation of f from the current one, made if it is new.
PushInvocation(s, f) ==
  LET parent == s.current
      hash   == IF parent = 0 THEN FunctionHash(f)
                ELSE XorBits(FunctionHash(f), s.all[parent].hash, 8)
      index  == hash % Cardinality(DOMAIN s.table)
      found  == SelectInSeq(s.table[index], LAMBDA i : SameInvocation(s.all[i], f, hash, parent))
      new    == [hash |-> hash, function |-> f, parent |-> parent, calls |-> 0, ticks |-> 0, start |-> 0]
  IN IF found # 0 THEN [s EXCEPT !.current = s.table[index][found]]
     ELSE [all |-> Append(s.all, new), current |-> Len(s.all) + 1,
           table |-> [s.table EXCEPT ![index] = <<Len(s.all) + 1>> \o @]]

\* LuaProfilerInit.
LuaProfilerInit(size, now) ==
  LET s == PushInvocation(TableInit(size), "toplevel") IN [s EXCEPT !.all[s.current].start = now]

\* ProfilerLuaEvent, the hook: the clock stands still inside it.
ProfilerLuaEvent(s, event, now) ==
  LET left == [s EXCEPT !.all[s.current].ticks = @ + (now - s.all[s.current].start)]
      next == IF event.call THEN LET p == PushInvocation(left, event.function)
                                 IN [p EXCEPT !.all[p.current].calls = @ + 1]
              ELSE [left EXCEPT !.current = left.all[s.current].parent]
  IN [next EXCEPT !.all[next.current].start = now]

-----------------------------------------------------------------------------

\* The build profile: it has the events that began first, up to the limit, each with
\* the time from its begin to its end.  Of a thread that reached the limit the last
\* event is left out: later ones stretch its duration.
ProfilerRight(events) ==
  LET Step(s, e) == [t |-> IF e.begin THEN ProfilerBeginImpl(s.t, e.name, s.now)
                           ELSE ProfilerEndImpl(s.t, s.now),
                     now |-> s.now + e.takes]
      end == FoldLeft(Step, [t |-> ThreadInit, now |-> 1], events)
      t   == ProfilerDestroy(end.t, end.now)
      At(i) == 1 + FoldLeft(LAMBDA n, e : n + e.takes, 0, SubSeq(events, 1, i - 1))
      begins == SelectSeq([i \in DOMAIN events |-> i], LAMBDA i : events[i].begin)
      kept == Min({Len(begins), MaxEvents})
  IN /\ Len(t.events) = kept
     /\ \A k \in 1 .. kept : ~(k < Len(begins) /\ k = MaxEvents) =>
          t.events[k] = [time |-> At(begins[k]), name |-> events[begins[k]].name,
                         duration |-> At(begins[k] + 1) - At(begins[k])]

\* The script profile: one invocation for each distinct stack of calls, however the
\* hashes collide (a hash is the same for a calling b and b calling a), with the
\* number of times that stack was entered and the time spent at its top.
LuaProfilerRight(size, events) ==
  LET Step(s, e) == [p |-> ProfilerLuaEvent(s.p, e, s.now), now |-> s.now + e.takes]
      p == FoldLeft(Step, [p |-> LuaProfilerInit(size, 0), now |-> 1], events).p
      Stacks == FoldLeft(LAMBDA ss, e :
                  Append(ss, IF e.call THEN Append(Last(ss), e.function) ELSE Front(Last(ss))),
                  << <<"toplevel">> >>, events)
      StackOf[i \in 0 .. Len(p.all)] ==
        IF i = 0 THEN <<>> ELSE Append(StackOf[p.all[i].parent], p.all[i].function)
      Entered(stack) == Cardinality({k \in DOMAIN events : events[k].call /\ Stacks[k + 1] = stack})
      Spent(stack) ==
        FoldLeft(LAMBDA n, k : n + IF Stacks[k] # stack THEN 0
                                   ELSE IF k = 1 THEN 1 ELSE events[k - 1].takes,
                 0, [k \in DOMAIN events |-> k])
  IN /\ IsInjective([i \in DOMAIN p.all |-> StackOf[i]])
     /\ {StackOf[i] : i \in DOMAIN p.all} = ToSet(Stacks)
     /\ \A i \in DOMAIN p.all : p.all[i].calls = Entered(StackOf[i]) /\ p.all[i].ticks = Spent(StackOf[i])

=============================================================================
