------------------------------- MODULE Paths -------------------------------
(***************************************************************************)
(* src/src/PathUtil.cpp, and the functions that LuaPath.cpp gives to build *)
(* scripts on top of it.                                                   *)
(*                                                                         *)
(* The text of a path is whether it begins with a separator, and the names *)
(* between the separators; doubled separators have an empty name between   *)
(* them.  "x:" stands for a device name.                                   *)
(***************************************************************************)
EXTENDS Integers, SequencesExt

Device == "x:"

\* PathInit, X:\ style paths: the device stays the first segment.
IsDevicePath(type, text) ==
  type = "Windows" /\ ~text.slash /\ Len(text.raw) >= 2 /\ text.raw[1] = Device

\* Slip: a name that goes takes no ".." with it.
PendingDrops_Keep(segments) ==
  LET Pending[i \in 1 .. Len(segments) + 1] ==
        CASE i > Len(segments) -> 0
          [] i <= Len(segments) /\ segments[i] = ".." -> Pending[i + 1] + 1
          [] OTHER -> Pending[i + 1]
  IN Pending

\* How many names the ".."s from segment i on still have to drop: the loop of
\* PathInit runs from the last segment to the first.
PendingDrops(segments) ==
  LET Pending[i \in 1 .. Len(segments) + 1] ==
        CASE i > Len(segments) -> 0
          [] i <= Len(segments) /\ segments[i] = "." -> Pending[i + 1]
          [] i <= Len(segments) /\ segments[i] = ".." -> Pending[i + 1] + 1
          [] OTHER -> IF Pending[i + 1] > 0 THEN Pending[i + 1] - 1 ELSE 0
  IN Pending

\* PathInit over PathGetSegments, which knows both separators.
PathInit(type, text) ==
  LET segments == SelectSeq(text.raw, LAMBDA name : name # "")
      drops    == PendingDrops(segments)
      Kept(i)  == segments[i] \notin {".", ".."} /\ drops[i + 1] = 0
      kept     == SelectSeq([i \in DOMAIN segments |-> i], Kept)
  IN [absolute |-> text.slash \/ IsDevicePath(type, text),
      device   |-> IsDevicePath(type, text),
      dotdots  |-> drops[1],
      segs     |-> [i \in DOMAIN kept |-> segments[kept[i]]]]

MinSegCount(buffer) == IF buffer.device THEN 1 ELSE 0

PathCanStrip(buffer) == Len(buffer.segs) > MinSegCount(buffer)

PathStripLast(buffer) ==
  IF PathCanStrip(buffer) THEN [buffer EXCEPT !.segs = Front(@)] ELSE buffer

\* PathConcat and PathConcatImpl: the ".."s of the other path eat segments, and
\* what they cannot eat is kept, but not above a root.
PathConcat(buffer, other) ==
  LET count == Len(buffer.segs)
      eaten == Min({other.dotdots, count - MinSegCount(buffer)})
      above == IF eaten = count THEN other.dotdots - eaten ELSE 0
  IN IF other.absolute THEN other
     ELSE [buffer EXCEPT
             !.segs = SubSeq(@, 1, count - eaten) \o other.segs,
             !.dotdots = IF buffer.absolute THEN 0 ELSE @ + above]

\* PathFormatPartial: the ".."s come first, whichever part is wanted.
PathFormatPartial(buffer, first, last) ==
  LET up == [i \in 1 .. buffer.dotdots |-> ".."]
  IN [slash |-> first = 1 /\ buffer.absolute /\ ~buffer.device,
      raw   |-> up \o SubSeq(buffer.segs, first, last)
                   \o (IF last < first THEN <<"">> ELSE <<>>)]

PathFormat(buffer) == PathFormatPartial(buffer, 1, Len(buffer.segs))

-----------------------------------------------------------------------------
(* LuaPath.cpp. *)

LuaPathNormalize(type, text) == PathFormat(PathInit(type, text))

LuaPathJoin(type, text1, text2) ==
  PathFormat(PathConcat(PathInit(type, text1), PathInit(type, text2)))

Dot == [slash |-> FALSE, raw |-> <<".">>]

LuaPathGetFilenameDir(type, text) ==
  LET buffer == PathInit(type, text)
  IN IF PathCanStrip(buffer) THEN PathFormat(PathStripLast(buffer)) ELSE Dot

\* LuaPathSplit: directory and file, "." if there is one segment only.
LuaPathSplit(type, text) ==
  LET buffer == PathInit(type, text)
      count  == Len(buffer.segs)
  IN IF count > 1
     THEN <<PathFormatPartial(buffer, 1, count - 1), PathFormatPartial(buffer, count, count)>>
     ELSE <<Dot, PathFormat(buffer)>>

-----------------------------------------------------------------------------
(* Where a path leads, name by name from the left. *)

Walk(type, text) ==
  LET floor == IF IsDevicePath(type, text) THEN 1 ELSE 0
      rooted == text.slash \/ IsDevicePath(type, text)
      Go(place, name) ==
        CASE name \in {"", "."} -> place
          [] name = ".." /\ Len(place.down) > floor -> [place EXCEPT !.down = Front(@)]
          [] name = ".." /\ Len(place.down) <= floor ->
               IF rooted THEN place ELSE [place EXCEPT !.up = @ + 1]
          [] OTHER -> [place EXCEPT !.down = Append(@, name)]
  IN FoldLeft(Go, [rooted |-> rooted, up |-> 0, down |-> <<>>], text.raw)

\* The place that a buffer stands for; there is nothing above a root.
Place(buffer) ==
  [rooted |-> buffer.absolute,
   up |-> IF buffer.absolute THEN 0 ELSE buffer.dotdots, down |-> buffer.segs]

\* Two kinds of device paths come out of PathFormat as something else: "x:\..\a"
\* as "a", for PathInit lets ".." drop the device, and "x:\" as "x:".
LosesDevice(type, text) ==
  IsDevicePath(type, text) /\ ~IsDevicePath(type, LuaPathNormalize(type, text))

Follow(text1, text2) ==
  IF text2.slash THEN text2 ELSE [text1 EXCEPT !.raw = @ \o text2.raw]

\* Normalising a path does not change where it leads, and once is enough; a
\* joined path leads where the second one leads from the first; and a path that
\* was split leads there again when it is joined, unless it climbs out of where
\* it starts (PathFormatPartial then repeats the ".."s in the file's name).
PathRight(type, text1, text2) ==
  LET one == PathInit(type, text1)
      two == PathInit(type, text2)
      parts == LuaPathSplit(type, text1)
      Leads(text) == Walk(type, text)
  IN /\ Place(one) = Leads(text1)
     /\ PathInit(type, LuaPathNormalize(type, text1)) = one
     /\ Place(PathConcat(one, two)) =
          Leads(IF IsDevicePath(type, text2) THEN text2 ELSE Follow(text1, text2))
     /\ one.dotdots = 0 => Leads(LuaPathJoin(type, parts[1], parts[2])) = Leads(text1)
     /\ PathCanStrip(one) =>
          Leads(LuaPathGetFilenameDir(type, text1)).down = Front(Leads(text1).down)

=============================================================================
