------------------------------- MODULE LuaGc -------------------------------
(***************************************************************************)
(* The incremental garbage collector of the embedded Lua (lgc.c) together  *)
(* with what the running script does to the heap between its steps: the    *)
(* string table (lstring.c), closures and upvalues (lfunc.c), stores with  *)
(* their write barriers (lvm.c, lapi.c) and the end of the state           *)
(* (lstate.c).                                                             *)
(*                                                                         *)
(* global_State is one record g and each C function an operator on it.     *)
(* An object has one reference ref[o] (a table's value, a closure's        *)
(* upvalue, a userdata's metatable or environment, a closed upvalue's      *)
(* value), and a table a key beside it; prototypes, the further entries    *)
(* and the sizes that pace the collector (estimate, threshold) are left    *)
(* out, so a collector step may come between any two steps of the script.  *)
(* What a phase does not read (the gray lists when it does not mark, the   *)
(* sweep's positions when it does not sweep) is kept empty: the code       *)
(* leaves old values there and sets them before it reads them again.       *)
(***************************************************************************)
EXTENDS Integers, Sequences, SequencesExt, FiniteSetsExt

CONSTANTS Main, Globals,                  \* the main thread, its global table
          Thread, Table, Closure, UpVal, String, Udata,
          WeakKeys, WeakValues,           \* the tables with such a __mode
          HasFinalizer,                   \* the userdata with a __gc
          StackOf,                        \* thread |-> its stack slots
          StringHash,                     \* string |-> its hash
          Pools                           \* the sets of objects to explore

VARIABLE g

Nil == "nil"

Object == Thread \cup Table \cup Closure \cup UpVal \cup String \cup Udata

Slot == UNION {StackOf[t] : t \in Thread}

\* marks are relative to currentwhite: "white" is that one, "dead" the other
IsWhite(h, o) == h.mark[o] \in {"white", "dead"}

IsDead(h, o) == h.mark[o] = "dead"

Marked(h, o, colour) == [h EXCEPT !.mark[o] = colour]

MakeWhite(h, o) == Marked(h, o, "white")

\* currentwhite = otherwhite(g)
FlipWhite(h) ==
  [h EXCEPT !.mark = [o \in Object |-> CASE @[o] = "white" -> "dead"
                                         [] @[o] = "dead" -> "white"
                                         [] OTHER -> @[o]]]

\* uv->v: the stack slot of an open upvalue, its own cell once closed
UpValue(h, uv) == IF h.open[uv] # 0 THEN h.stack[h.open[uv]] ELSE h.ref[uv]

----------------------------------------------------------------------------
\* Marking

RECURSIVE ReallyMarkObject(_, _)

MarkValue(h, o) ==
  IF o # Nil /\ IsWhite(h, o) THEN ReallyMarkObject(h, o) ELSE h

\* userdata are never gray, open upvalues never black, strings never listed
ReallyMarkObject(h, o) ==
  CASE o \in String -> Marked(h, o, "gray")
    [] o \in Udata -> MarkValue(Marked(h, o, "black"), h.ref[o])
    [] o \in UpVal ->
         LET value == MarkValue(Marked(h, o, "gray"), UpValue(h, o))
         IN  IF h.open[o] = 0 THEN Marked(value, o, "black") ELSE value
    [] OTHER -> [Marked(h, o, "gray") EXCEPT !.gray = <<o>> \o @]

MarkAll(h, objects) ==
  FoldSet(LAMBDA o, r : MarkValue(r, o), h, objects)

IsWeak(t) == t \in WeakKeys \cup WeakValues

TraverseTable(h, t) ==
  LET listed == IF IsWeak(t) THEN [h EXCEPT !.weak = <<t>> \o @] ELSE h
      key    == IF t \in WeakKeys THEN listed ELSE MarkValue(listed, h.key[t])
  IN  CASE t \in WeakKeys \cap WeakValues -> listed
        [] h.ref[t] = Nil -> [listed EXCEPT !.key[t] = Nil]    \* removeentry
        [] t \in WeakValues -> key
        [] OTHER -> MarkValue(key, h.ref[t])

TraverseStack(h, t) == MarkAll(h, {h.stack[s] : s \in StackOf[t]} \cup {Globals})

\* one gray object becomes black; threads and weak tables stay gray
PropagateMark(h) ==
  LET o == Head(h.gray)
      r == [h EXCEPT !.gray = Tail(@)]
  IN  CASE o \in Thread ->
             TraverseStack([r EXCEPT !.grayagain = <<o>> \o @], o)
        [] o \in Table ->
             TraverseTable(IF IsWeak(o) THEN r ELSE Marked(r, o, "black"), o)
        [] OTHER -> MarkValue(Marked(r, o, "black"), h.ref[o])

RECURSIVE PropagateAll(_)
PropagateAll(h) == IF h.gray = <<>> THEN h ELSE PropagateAll(PropagateMark(h))

MarkRoot(h) ==
  LET reset == [h EXCEPT !.gray = <<>>, !.grayagain = <<>>, !.weak = <<>>,
                         !.gcstate = "propagate"]
  IN  MarkValue(MarkValue(reset, Main), Globals)

RemarkUpvals_Skipped(h) == h

\* open upvalues that are reached, of threads that may not be
RemarkUpvals(h) ==
  MarkAll(h, {UpValue(h, uv) : uv \in {u \in UpVal : /\ h.open[u] # 0
                                                     /\ h.mark[u] = "gray"}})

\* the unreached userdata (or all) to finalize move to tmudata, once each
SeparateUdata(h, all) ==
  LET chosen == SelectSeq(h.root, LAMBDA u : /\ u \in Udata \ h.finalized
                                             /\ all \/ IsWhite(h, u))
      called == SelectSeq(chosen, LAMBDA u : u \in HasFinalizer)
  IN  [h EXCEPT !.finalized = @ \cup ToSet(chosen),
                !.root = SelectSeq(@, LAMBDA o : o \notin ToSet(called)),
                !.tmudata = @ \o called]

\* what a finalizer may still use
MarkTmu(h) ==
  FoldLeft(LAMBDA r, u : ReallyMarkObject(MakeWhite(r, u), u), h, h.tmudata)

IsCleared(h, o, iskey) ==
  /\ o \notin String \cup {Nil}
  /\ IsWhite(h, o) \/ (o \in h.finalized /\ ~iskey)

\* strings met in a weak table are marked; an entry that lost its key or its
\* value goes
ClearTable(h, t) ==
  LET seen(r, o) == IF o \in String THEN Marked(r, o, "gray") ELSE r
      lost == IsCleared(h, h.key[t], TRUE) \/ IsCleared(h, h.ref[t], FALSE)
  IN  CASE h.ref[t] = Nil -> h
        [] lost -> [seen(h, h.key[t]) EXCEPT !.ref[t] = Nil, !.key[t] = Nil]
        [] OTHER -> seen(seen(h, h.key[t]), h.ref[t])

Atomic(h) ==
  LET upvals  == PropagateAll(RemarkUpvals(h))
      tables  == [upvals EXCEPT !.gray = upvals.weak, !.weak = <<>>]
      running == PropagateAll(MarkValue(tables, Main))
      again   == PropagateAll([running EXCEPT !.gray = running.grayagain,
                                              !.grayagain = <<>>])
      tmu     == PropagateAll(MarkTmu(SeparateUdata(again, FALSE)))
      cleared == FoldLeft(ClearTable, tmu, tmu.weak)
  IN  [FlipWhite(cleared) EXCEPT !.sweepstrgc = 0, !.sweepgc = 0,
                                 !.grayagain = <<>>, !.weak = <<>>,
                                 !.gcstate = "sweepstring"]

----------------------------------------------------------------------------
\* The lists. sweepgc counts the objects of root in front of the sweep's
\* pointer, so an object linked behind the pointer's place moves it along.

LinkFront(h, o) ==
  [h EXCEPT !.root = <<o>> \o @,
            !.sweepgc = IF @ = 0 THEN 0 ELSE @ + 1]

LuaC_link(h, o) == LinkFront(MakeWhite(h, o), o)

\* the list of userdata starts behind the main thread
LinkUdata(h, u) ==
  LET main == Len(SelectSeq(h.root, LAMBDA o : o \notin Udata))
  IN  [MakeWhite(h, u) EXCEPT
         !.root = InsertAt(@, main + 1, u),
         !.sweepgc = IF @ > main THEN @ + 1 ELSE @]

\* luaM_free; what refers to the object keeps doing so. owed records that a
\* userdata went without exactly one call of its finalizer.
Freed(h, o) ==
  [Marked(h, o, "free") EXCEPT !.ref[o] = Nil,
     !.open[o] = 0, !.key[o] = Nil, !.finalized = @ \ {o}, !.calls[o] = 0,
     !.owed = @ \/ (o \in HasFinalizer /\ h.calls[o] # 1)]

LuaC_barrierf(h, o, v) ==
  IF h.gcstate = "propagate" THEN ReallyMarkObject(h, v) ELSE MakeWhite(h, o)

LuaC_barrier_None(h, o, v) == h

LuaC_barrier(h, o, v) ==
  IF v # Nil /\ h.mark[o] = "black" /\ IsWhite(h, v)
  THEN LuaC_barrierf(h, o, v) ELSE h

LuaC_barriert(h, t, v) ==
  IF v # Nil /\ h.mark[t] = "black" /\ IsWhite(h, v)
  THEN [Marked(h, t, "gray") EXCEPT
          !.grayagain = IF h.gcstate = "propagate" THEN <<t>> \o @ ELSE @]
  ELSE h

LuaC_linkupval(h, uv) ==
  LET linked == LinkFront(h, uv)
  IN  CASE h.mark[uv] # "gray" -> linked
        [] h.gcstate = "propagate" ->
             LuaC_barrier(Marked(linked, uv, "black"), uv, UpValue(h, uv))
        [] OTHER -> MakeWhite(linked, uv)

\* the highest open upvalue first
LuaF_close(h, slots) ==
  LET close(r, uv) ==
        IF IsDead(r, uv) THEN Freed(r, uv)
        ELSE LuaC_linkupval([r EXCEPT !.ref[uv] = UpValue(r, uv),
                                      !.open[uv] = 0], uv)
      higher(u, v) == h.open[u] > h.open[v]
  IN  FoldLeft(close, h,
               SetToSortSeq({uv \in UpVal : h.open[uv] \in slots}, higher))

----------------------------------------------------------------------------
\* Sweeping and finalizing

Sweep(h, o) == IF IsDead(h, o) THEN Freed(h, o) ELSE MakeWhite(h, o)

SweepAll(h, objects) == FoldSet(LAMBDA o, r : Sweep(r, o), h, objects)

Popped(h, slots) ==
  [h EXCEPT !.stack = [s \in Slot |-> IF s \in slots THEN Nil ELSE @[s]]]

\* one object of the root list (a sweep step takes GCSWEEPMAX of them)
SweepList(h) ==
  LET curr   == h.root[h.sweepgc + 1]
      upvals == IF curr \in Thread
                THEN {uv \in UpVal : h.open[uv] \in StackOf[curr]} ELSE {}
      swept  == SweepAll(h, upvals)
      erased == [swept EXCEPT !.root = RemoveAt(@, h.sweepgc + 1)]
  IN  CASE ~IsDead(h, curr) ->
             [MakeWhite(swept, curr) EXCEPT !.sweepgc = @ + 1]
        [] curr \in Thread ->
             Freed(Popped(LuaF_close(erased, StackOf[curr]), StackOf[curr]),
                   curr)
        [] OTHER -> Freed(erased, curr)

SweepString(h) ==
  LET bucket == {s \in String : /\ h.mark[s] # "free"
                                /\ StringHash[s] % h.strsize = h.sweepstrgc}
      last   == h.sweepstrgc + 1 >= h.strsize
  IN  [SweepAll(h, bucket) EXCEPT
         !.sweepstrgc = IF last THEN 0 ELSE @ + 1,
         !.gcstate = IF last THEN "sweep" ELSE @]

\* the userdata returns to the root list before its finalizer runs
GCTM(h) ==
  LET u == Head(h.tmudata)
  IN  [LinkUdata([h EXCEPT !.tmudata = Tail(@)], u) EXCEPT !.calls[u] = @ + 1]

\* the script has control: no full collection is on, the state is open
Running == g.full = "no" /\ ~g.closed

LuaH_set(h, t, k, v) ==
  LET keyed == LuaC_barriert([h EXCEPT !.key[t] = k], t, k)
  IN  LuaC_barriert([keyed EXCEPT !.ref[t] = v], t, v)

\* singlestep; the finalizer called last may store its userdata or not
SingleStep(h) ==
  CASE h.gcstate = "pause" -> {MarkRoot(h)}
    [] h.gcstate = "propagate" ->
         {IF h.gray # <<>> THEN PropagateMark(h) ELSE Atomic(h)}
    [] h.gcstate = "sweepstring" -> {SweepString(h)}
    [] h.gcstate = "sweep" ->
         LET swept == IF h.sweepgc < Len(h.root) THEN SweepList(h) ELSE h
         IN  {IF swept.sweepgc < Len(swept.root) THEN swept
              ELSE [swept EXCEPT !.sweepgc = 0, !.gcstate = "finalize"]}
    [] OTHER ->
         IF h.tmudata = <<>> THEN {[h EXCEPT !.gcstate = "pause"]}
         ELSE {GCTM(h)} \cup
              {LuaH_set(GCTM(h), t, Nil, Head(h.tmudata)) :
                 t \in {t \in {Globals} : h.ref[t] = Nil \/ h.key[t] = Nil}}

\* luaC_step, called where the script allocates: any number of single steps
LuaC_step ==
  /\ Running
  /\ g' \in SingleStep(g)

\* luaC_fullgc: abandon a mark phase, finish the sweep, then one whole cycle
LuaC_fullgc ==
  LET reset == [g EXCEPT !.sweepstrgc = 0, !.sweepgc = 0, !.gray = <<>>,
                         !.grayagain = <<>>, !.weak = <<>>,
                         !.gcstate = "sweepstring"]
      begun == IF g.gcstate \in {"pause", "propagate"} THEN reset ELSE g
  IN  /\ Running
      /\ g' = [begun EXCEPT !.full = "sweep"]

FullGcStep ==
  \/ /\ g.full = "sweep"
     /\ g.gcstate # "finalize"
     /\ g' \in SingleStep(g)
  \/ /\ g.full = "sweep"
     /\ g.gcstate = "finalize"
     /\ g' = [MarkRoot(g) EXCEPT !.full = "mark"]
  \/ /\ g.full = "mark"
     /\ g' \in {[h EXCEPT !.full = IF h.gcstate = "pause" THEN "no" ELSE @] :
                  h \in SingleStep(g)}

----------------------------------------------------------------------------
\* The script

Fresh(kind) == {o \in kind \cap g.pool : g.mark[o] = "free"}

Held == ({g.stack[s] : s \in StackOf[Main]} \cup {Globals}) \ {Nil}

\* the thread a script may resume, the stack slots its code may use
Slots == UNION {StackOf[t] : t \in Thread \cap (Held \cup {Main})}

\* what one instruction can put into a register
Readable ==
  {Nil} \cup Held \cup {g.stack[s] : s \in Slots}
    \cup {g.ref[o] : o \in Held \cap (Table \cup Udata)}
    \cup {g.key[t] : t \in {u \in Held \cap Table : g.ref[u] # Nil}}
    \cup {UpValue(g, g.ref[c]) : c \in Held \cap Closure}

\* only the tables with weak keys are given other keys than plain ones
Keys(t) == IF t \in WeakKeys THEN Held ELSE {Nil}

Push(h, s, v) == [h EXCEPT !.stack[s] = v]

Move(s, v) ==
  /\ Running
  /\ g' = Push(g, s, v)

NewObject(s) ==
  /\ Running
  /\ \E o \in Fresh(Table \cup Thread) : g' = Push(LuaC_link(g, o), s, o)

LuaS_newudata(s) ==
  /\ Running
  /\ \E u \in Fresh(Udata) : g' = Push(LinkUdata(g, u), s, u)

\* an equal string may be there already, even dead and not yet swept
LuaS_newlstr(s, str) ==
  LET made  == MakeWhite(g, str)
      nuse  == Cardinality({t \in String : made.mark[t] # "free"})
      grown == IF nuse > g.strsize /\ g.gcstate # "sweepstring"
               THEN [made EXCEPT !.strsize = 2 * @] ELSE made
      found == IF IsDead(g, str) THEN made ELSE g
  IN  /\ Running
      /\ str \in g.pool
      /\ g' = Push(IF g.mark[str] = "free" THEN grown ELSE found, s, str)

\* the open upvalue of a level, made or revived
LuaF_findupval(h, level) ==
  LET there == {uv \in UpVal : h.open[uv] = level}
  IN  IF there # {}
      THEN {[state |-> IF IsDead(h, uv) THEN MakeWhite(h, uv) ELSE h,
             uv |-> uv] : uv \in there}
      ELSE {[state |-> [MakeWhite(h, uv) EXCEPT !.open[uv] = level],
             uv |-> uv] : uv \in Fresh(UpVal)}

\* OP_CLOSURE, run by the thread that owns the captured slot, or by a closure
\* that passes its own upvalue on
NewClosure(s, level) ==
  LET Shared(h) == {[state |-> h, uv |-> h.ref[c]] : c \in Held \cap Closure}
  IN  /\ Running
      /\ \E c \in Fresh(Closure) :
           LET linked == LuaC_link(g, c)
           IN  \E f \in LuaF_findupval(linked, level) \cup Shared(linked) :
                 g' = Push([f.state EXCEPT !.ref[c] = f.uv], s, c)

SetTable(t, k, v) ==
  /\ Running
  /\ g.ref[t] = Nil \/ g.key[t] = k             \* room for one entry
  /\ g' = LuaH_set(g, t, k, v)

\* OP_SETUPVAL
SetUpval(c, v) ==
  LET uv  == g.ref[c]
      set == IF g.open[uv] # 0 THEN Push(g, g.open[uv], v)
             ELSE [g EXCEPT !.ref[uv] = v]
  IN  /\ Running
      /\ g' = LuaC_barrier(set, uv, v)

\* lua_setmetatable and lua_setfenv on a userdata
SetMetatable(u, t) ==
  /\ Running
  /\ g' = LuaC_barrier([g EXCEPT !.ref[u] = t], u, t)

\* OP_CLOSE: the locals from a level up leave scope
CloseUpvals(t, level) ==
  LET slots == {s \in StackOf[t] : s >= level}
  IN  /\ Running
      /\ g' = Popped(LuaF_close(g, slots), slots)

\* lua_close: every finalizer that has not run runs, then all is freed
RECURSIVE CallGCTM(_)
CallGCTM(h) == IF h.tmudata = <<>> THEN h ELSE CallGCTM(GCTM(h))

LuaC_freeall(h) ==
  LET threads == ToSet(h.root) \cap Thread
      upvals  == {uv \in UpVal : \E t \in threads : h.open[uv] \in StackOf[t]}
      strings == {s \in String : h.mark[s] # "free"}
      swept   == (ToSet(h.root) \cup upvals \cup strings) \ {Main}
  IN  [FoldSet(LAMBDA o, r : Freed(r, o), h, swept) EXCEPT
         !.root = SelectSeq(@, LAMBDA o : o \notin swept)]

LuaClose ==
  LET emptied  == Popped(LuaF_close(g, StackOf[Main]), StackOf[Main])
      finished == CallGCTM(SeparateUdata(emptied, TRUE))
  IN  /\ Running
      /\ g' = [LuaC_freeall(LuaF_close(finished, StackOf[Main])) EXCEPT
                 !.closed = TRUE]

----------------------------------------------------------------------------

GcInit ==
  \E pool \in Pools :
    g = [mark |-> [o \in Object |-> IF o \in {Main, Globals}
                                   THEN "white" ELSE "free"],
         gcstate |-> "pause", full |-> "no",
         root |-> <<Globals, Main>>, sweepgc |-> 0, sweepstrgc |-> 0,
         strsize |-> 1, gray |-> <<>>, grayagain |-> <<>>, weak |-> <<>>,
         tmudata |-> <<>>, finalized |-> {}, open |-> [o \in Object |-> 0],
         ref |-> [o \in Object |-> Nil], key |-> [o \in Object |-> Nil],
         stack |-> [s \in Slot |-> Nil], pool |-> pool, closed |-> FALSE,
         calls |-> [o \in Object |-> 0], owed |-> FALSE]

Script ==
  \/ \E s \in Slots, v \in Readable : Move(s, v)
  \/ \E s \in StackOf[Main] : NewObject(s)
  \/ \E s \in StackOf[Main] : LuaS_newudata(s)
  \/ \E s \in StackOf[Main], str \in String : LuaS_newlstr(s, str)
  \/ \E s \in StackOf[Main], level \in Slots : NewClosure(s, level)
  \/ \E t \in Held \cap Table, v \in Held \cup {Nil} : \E k \in Keys(t) :
       SetTable(t, k, v)
  \/ \E c \in Held \cap Closure, v \in Held \cup {Nil} : SetUpval(c, v)
  \/ \E u \in Held \cap Udata, t \in Held \cap Table : SetMetatable(u, t)
  \/ \E t \in Thread \cap (Held \cup {Main}) : \E s \in StackOf[t] :
       CloseUpvals(t, s)
  \/ LuaClose

GcNext == LuaC_step \/ LuaC_fullgc \/ FullGcStep \/ Script

GcSpec == GcInit /\ [][GcNext]_g

----------------------------------------------------------------------------

\* what can be read out of an object, and what its marking must follow
Reads(o) ==
  CASE o \in Thread -> {g.stack[s] : s \in StackOf[o]} \cup {Globals}
    [] o \in UpVal -> {UpValue(g, o)}
    [] o \in Table /\ g.ref[o] # Nil -> {g.ref[o], g.key[o]}
    [] OTHER -> {g.ref[o]}

Holds(o) ==
  CASE o \in Table /\ g.ref[o] = Nil -> {}
    [] o \in Table -> (IF o \in WeakValues THEN {} ELSE {g.ref[o]})
                        \cup (IF o \in WeakKeys THEN {} ELSE {g.key[o]})
    [] OTHER -> Reads(o)

RECURSIVE ReachableFrom(_)
ReachableFrom(set) ==
  LET more == (set \cup UNION {Reads(o) : o \in set}) \ {Nil}
  IN  IF more = set THEN set ELSE ReachableFrom(more)

(* A script never meets a freed object: whatever it can reach from its stacks
   and its globals, through weak tables too, or a pending finalizer from its
   userdata, is allocated and not among what the sweep will free, however the
   stores, new closures, interned strings and coroutines fall between the
   collector's steps. *)
NothingUsedIsFreed ==
  ~g.closed =>
    \A o \in ReachableFrom({Main, Globals} \cup ToSet(g.tmudata)) :
      g.mark[o] # "free" /\ ~IsDead(g, o)

(* The collector's own assertions: while it marks, nothing black holds
   anything white; the gray lists share no object (they share one link field)
   and hold gray ones; between two cycles everything is white; a userdata
   leaves after exactly one call of its finalizer; and lua_close leaves the
   main thread alone. *)
CollectorSound ==
  LET lists == g.gray \o g.grayagain \o g.weak
  IN  /\ g.gcstate = "propagate" /\ ~g.closed =>
           /\ \A o \in {b \in Object : g.mark[b] = "black"} :
                \A v \in Holds(o) \ {Nil} : ~IsWhite(g, v)
           /\ Len(lists) = Cardinality(ToSet(lists))
           /\ \A o \in ToSet(lists) : g.mark[o] = "gray"
      /\ g.gcstate \in {"pause", "finalize"} =>
           \A o \in Object \ ToSet(g.tmudata) : g.mark[o] \in {"free", "white"}
      /\ ~g.owed
      /\ g.closed => \A o \in Object \ {Main} : g.mark[o] = "free"

=============================================================================
