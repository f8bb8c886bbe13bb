---------------------------- MODULE EngineProofs ----------------------------
(***************************************************************************)
(* Proofs about Engine, for any depth of nesting: EngineInv is an          *)
(* invariant, and what follows from it.                                    *)
(***************************************************************************)
EXTENDS Engine, SequenceTheorems, TLAPS

LEMMA ExcFacts ==
  \A type \in {"none", "script", "std", "engine", "exit", "duk"} :
    /\ Thrown(type) \in Exception /\ Thrown(type).t = type /\ Thrown(type).traced = FALSE
    /\ Thrown(type).err = 0 /\ Thrown(type).as = "same"
<1>1. FALSE \in BOOLEAN /\ 0 \in Nat /\ 0 \in Int /\ "same" \in {"same", "copy", "other"}
  OBVIOUS
<1> QED
  BY <1>1, Zenon DEF Exception, Thrown

LEMMA NoExcFacts == NoExc \in Exception /\ NoExc.t = "none" /\ NoExc.traced = FALSE /\ NoExc.err = 0
BY ExcFacts DEF NoExc

(* The first n of a sequence. *)
LEMMA First ==
  ASSUME NEW S, NEW s \in Seq(S), NEW n \in 0..Len(s)
  PROVE  /\ SubSeq(s, 1, n) \in Seq(S) /\ Len(SubSeq(s, 1, n)) = n
         /\ \A i \in 1..n : SubSeq(s, 1, n)[i] = s[i]
<1>1. n \in Nat /\ Len(s) \in Nat /\ n <= Len(s)
  OBVIOUS
<1>2. \A i \in 1..n : s[i] \in S
  BY <1>1, ElementOfSeq
<1> QED
  BY <1>1, <1>2, SubSeqProperties

LEMMA KeepFacts ==
  ASSUME vs \in Seq(Int), NEW n \in 0..Len(vs)
  PROVE  /\ Keep(n) \in Seq(Int) /\ Len(Keep(n)) = n
         /\ \A i \in 1..n : Keep(n)[i] = vs[i]
BY First DEF Keep

LEMMA FrameFields ==
  ASSUME NEW f \in Frame
  PROVE  f.base \in Nat /\ f.own \in Nat /\ f.initial_top \in Nat /\ f.reg \in Nat /\ f.lost \in BOOLEAN
BY DEF Frame

LEMMA Facts ==
  ASSUME EngineInv
  PROVE  /\ depth \in Nat /\ depth > 0 /\ depth = Len(frames)
         /\ \A j \in 1..depth : frames[j] \in Frame
         /\ cur \in Frame /\ cur = frames[depth]
         /\ vs \in Seq(Int) /\ Len(vs) \in Nat /\ bottom \in Nat /\ bottom <= Len(vs)
         /\ frames \in Seq(Frame) /\ exc \in Exception /\ thrown \in Seq(Values)
         /\ broken \in BOOLEAN
BY ElementOfSeq DEF EngineInv, TypeOK, depth, cur

(* The frames and the value stack after a step. *)
Placed ==
  /\ vs \in Seq(Int) /\ bottom \in Nat /\ bottom <= Len(vs)
  /\ frames \in Seq(Frame) /\ Len(frames) > 0
  /\ \A j \in 1..depth : frames[j].k = "app" <=> j = 1
  /\ ~broken => Layout
  /\ Unwound

LEMMA Together ==
  ASSUME Placed', Errors', ErrorForwarded', at' \in {"native", "script", "failed", "over"},
         exc' \in Exception, thrown' \in Seq(Values), broken' \in BOOLEAN
  PROVE  EngineInv'
BY DEF Placed, EngineInv, TypeOK

(* Native code in control, or a script. *)
LEMMA Native ==
  ASSUME EngineInv, at = "native", ~broken
  PROVE  /\ bottom = cur.base /\ Len(vs) >= cur.base
         /\ ~cur.lost => Len(vs) = cur.base + cur.own
         /\ Layout
BY DEF EngineInv, Unwound, Layout, Filled

LEMMA Script ==
  ASSUME EngineInv, at \in {"script", "failed"}
  PROVE  /\ ~broken /\ Layout
         /\ bottom = IF at = "script" THEN cur.reg ELSE cur.base
         /\ cur.reg = cur.base + cur.initial_top + 2 /\ entry = cur.base + cur.initial_top
         /\ ~cur.lost => cur.initial_top = cur.own
         /\ Len(vs) = cur.reg + 1
BY DEF EngineInv, Errors, Unwound, Layout, Filled, Outer, entry
-----------------------------------------------------------------------------
LEMMA Below ==
  ASSUME NEW b \in Nat, NEW o \in Nat, NEW r \in Nat, NEW c \in Nat, r = b + o + 2, r + 1 < c
  PROVE  \A i \in b + 1 .. b + o : i \in 1..c
OBVIOUS

(* A step in which only the innermost function changes. *)
LEMMA TopStep ==
  ASSUME EngineInv, ~broken, NEW g \in Frame, g.base = cur.base, g.k = cur.k,
         frames' = [frames EXCEPT ![depth] = g],
         vs' \in Seq(Int), cur.base <= Len(vs'),
         \A i \in 1..cur.base : vs'[i] = vs[i],
         ~g.lost => \A i \in g.base + 1 .. g.base + g.own :
                      i <= Len(vs') /\ (vs'[i] = i \/ vs'[i] < 0),
         Filled',
         bottom' \in Nat, bottom' <= Len(vs'), Unwound'
  PROVE  Placed'
<1>0. Layout /\ depth \in Nat /\ depth > 0 /\ frames \in Seq(Frame) /\ depth = Len(frames)
      /\ (\A j \in 1..depth : frames[j] \in Frame) /\ cur = frames[depth] /\ cur.base \in Nat
      /\ Len(vs') \in Nat
  BY Facts, FrameFields DEF EngineInv
<1>1. /\ frames' \in Seq(Frame) /\ Len(frames') = Len(frames) /\ depth' = depth
      /\ frames'[depth] = g
      /\ \A j \in 1..depth - 1 : frames'[j] = frames[j]
  <2>1. depth \in 1..Len(frames)
    BY <1>0
  <2>2. frames' \in Seq(Frame) /\ Len(frames') = Len(frames)
    BY <1>0, <2>1
  <2>3. depth' = depth
    BY <2>2 DEF depth
  <2>4. \A j \in 1..Len(frames) : frames'[j] = IF j = depth THEN g ELSE frames[j]
    BY <1>0
  <2> QED
    BY <1>0, <2>1, <2>2, <2>3, <2>4
<1>2. \A j \in 1..depth : frames'[j].base = frames[j].base /\ frames'[j].k = frames[j].k
  <2> SUFFICES ASSUME NEW j \in 1..depth
               PROVE  frames'[j].base = frames[j].base /\ frames'[j].k = frames[j].k
    OBVIOUS
  <2>1. CASE j = depth
    BY <2>1, <1>0, <1>1
  <2>2. CASE j # depth
    BY <2>2, <1>0, <1>1
  <2> QED
    BY <2>1, <2>2
<1>3. \A j \in 1..depth : frames[j].k = "app" <=> j = 1
  BY DEF EngineInv
<1>4. \A j \in 1..depth - 1 : ~frames[j].lost => InPlace(frames[j])'
  <2> SUFFICES ASSUME NEW j \in 1..depth - 1, ~frames[j].lost,
                      NEW i \in frames[j].base + 1 .. frames[j].base + frames[j].own
               PROVE  i <= Len(vs') /\ (vs'[i] = i \/ vs'[i] < 0)
    BY <1>0, <1>1 DEF InPlace
  <2>1. frames[j] \in Frame /\ j \in 1..depth /\ depth \in 1..depth /\ j < depth
    BY <1>0
  <2>2. InPlace(frames[j]) /\ Outer(frames[j]) /\ frames[j].reg + 1 < frames[depth].base
    BY <1>0, <2>1 DEF Layout
  <2>3. i \in 1..cur.base
    <3>1. /\ frames[j].base \in Nat /\ frames[j].own \in Nat /\ frames[j].reg \in Nat
          /\ frames[j].initial_top = frames[j].own
          /\ frames[j].reg = frames[j].base + frames[j].own + 2
      BY <2>1, <2>2, FrameFields DEF Outer
    <3>2. cur.base \in Nat /\ frames[depth].base = cur.base
      BY <1>0
    <3>3. frames[j].reg + 1 < cur.base
      BY <2>2, <3>2
    <3> QED
      BY <3>1, <3>2, <3>3, Below
  <2>4. vs'[i] = vs[i] /\ (vs[i] = i \/ vs[i] < 0)
    BY <2>2, <2>3 DEF InPlace
  <2> QED
    BY <1>0, <2>3, <2>4
<1>5. Layout'
  <2>1. \A j \in 1..depth' : ~frames'[j].lost => InPlace(frames[j])'
    <3> SUFFICES ASSUME NEW j \in 1..depth, ~frames'[j].lost PROVE InPlace(frames[j])'
      BY <1>1
    <3>1. CASE j = depth
      BY <3>1, <1>1 DEF InPlace
    <3>2. CASE j # depth
      BY <3>2, <1>0, <1>1, <1>4
    <3> QED
      BY <3>1, <3>2
  <2>2. \A j \in 1..depth' - 1 : Outer(frames'[j])
    BY <1>0, <1>1 DEF Layout
  <2>3. \A j, l \in 1..depth' : j < l => frames'[j].reg + 1 < frames'[l].base
    <3> SUFFICES ASSUME NEW j \in 1..depth, NEW l \in 1..depth, j < l
                 PROVE  frames'[j].reg + 1 < frames'[l].base
      BY <1>1
    <3>1. j \in 1..depth - 1
      BY <1>0
    <3> QED
      BY <3>1, <1>0, <1>1, <1>2 DEF Layout
  <2> QED
    BY <2>1, <2>2, <2>3 DEF Layout, Outer
<1> QED
  BY <1>0, <1>1, <1>2, <1>3, <1>5 DEF Placed

(* The same for a step that leaves the functions alone. *)
LEMMA SameFrames ==
  ASSUME EngineInv, frames' = frames
  PROVE  cur \in Frame /\ frames' = [frames EXCEPT ![depth] = cur]
BY Facts DEF cur, depth

LEMMA TypePlaced == EngineInv => Placed
BY DEF EngineInv, Placed, TypeOK

(* A native function is left for the script that called it. *)
LEMMA Return ==
  ASSUME EngineInv, ~broken, ~isApp, at # "over", BackToScript, broken' = broken
  PROVE  Placed'
<1>0. Layout /\ depth \in Nat /\ depth > 1 /\ frames \in Seq(Frame) /\ depth = Len(frames)
      /\ (\A j \in 1..depth : frames[j] \in Frame) /\ cur = frames[depth] /\ vs \in Seq(Int)
      /\ Len(vs) \in Nat
  BY Facts DEF EngineInv, isApp
<1>1. /\ caller \in Frame /\ caller = frames[depth - 1] /\ caller.reg \in Nat /\ caller.base \in Nat
      /\ caller.initial_top \in Nat /\ cur \in Frame /\ cur.base \in Nat /\ cur.reg \in Nat
      /\ cur.initial_top \in Nat
  BY <1>0, FrameFields DEF caller
<1>2. Outer(caller) /\ caller.reg + 1 < cur.base /\ Filled
  <2>1. depth - 1 \in 1..depth - 1 /\ depth - 1 \in 1..depth /\ depth \in 1..depth /\ depth - 1 < depth
    BY <1>0
  <2> QED
    BY <1>0, <1>1, <2>1 DEF Layout
<1> DEFINE n == Len(vs)
<1>n. n \in Nat
  BY <1>0
<1>3. cur.base <= n
  <2>1. (Outer(cur) /\ n = cur.reg + 1) \/ n >= cur.base
    BY <1>2 DEF Filled
  <2>2. Outer(cur) => cur.reg = cur.base + cur.initial_top + 2
    BY DEF Outer
  <2> HIDE DEF n
  <2> QED
    BY <1>n, <1>1, <2>1, <2>2
<1>4. caller.reg + 1 \in 0..n
  <2> HIDE DEF n
  <2> QED
    BY <1>n, <1>1, <1>2, <1>3
<1>5. /\ vs' \in Seq(Int) /\ Len(vs') = caller.reg + 1
      /\ \A i \in 1..caller.reg + 1 : vs'[i] = vs[i]
  BY <1>0, <1>4, KeepFacts DEF BackToScript
<1>6. /\ frames' \in Seq(Frame) /\ Len(frames') = depth - 1
      /\ \A j \in 1..depth - 1 : frames'[j] = frames[j]
  <2>1. depth - 1 \in 0..Len(frames)
    BY <1>0
  <2> QED
    BY <1>0, <2>1, First DEF BackToScript
<1>7. depth' = depth - 1 /\ cur' = caller
  BY <1>0, <1>1, <1>6 DEF depth, cur
<1>8. /\ Filled' /\ Unwound' /\ bottom' \in Nat /\ bottom' <= Len(vs')
  BY <1>1, <1>2, <1>5, <1>7 DEF Filled, Unwound, BackToScript, Outer
<1>9. \A j \in 1..depth - 1 : ~frames[j].lost => InPlace(frames[j])'
  <2> SUFFICES ASSUME NEW j \in 1..depth - 1, ~frames[j].lost,
                      NEW i \in frames[j].base + 1 .. frames[j].base + frames[j].own
               PROVE  i <= Len(vs') /\ (vs'[i] = i \/ vs'[i] < 0)
    BY <1>0, <1>6 DEF InPlace
  <2>1. frames[j] \in Frame /\ j \in 1..depth /\ depth - 1 \in 1..depth
    BY <1>0
  <2>2. InPlace(frames[j]) /\ Outer(frames[j]) /\ (j # depth - 1 => frames[j].reg + 1 < caller.base)
    <3>1. j < depth - 1 \/ j = depth - 1
      BY <1>0
    <3> QED
      BY <1>0, <1>1, <2>1, <3>1 DEF Layout
  <2>3. /\ frames[j].base \in Nat /\ frames[j].own \in Nat /\ frames[j].reg \in Nat
        /\ frames[j].reg = frames[j].base + frames[j].own + 2
    BY <2>1, <2>2, FrameFields DEF Outer
  <2>4. frames[j].reg + 1 < caller.reg + 2
    <3>1. caller.reg = caller.base + caller.initial_top + 2
      BY <1>2 DEF Outer
    <3>2. CASE j = depth - 1
      BY <3>2, <1>1
    <3>3. CASE j # depth - 1
      BY <3>1, <3>3, <2>2, <2>3, <1>1
    <3> QED
      BY <3>2, <3>3
  <2>5. i \in 1..caller.reg + 2 /\ i <= frames[j].reg
    <3>1. caller.reg + 2 \in Nat
      BY <1>1
    <3>2. i \in 1..caller.reg + 2
      BY <2>3, <2>4, <3>1, Below
    <3>3. i \in 1..frames[j].reg
      BY <2>3
    <3> QED
      BY <2>3, <3>2, <3>3
  <2>6. i \in 1..caller.reg + 1
    BY <2>3, <2>4, <2>5, <1>1
  <2>7. vs'[i] = vs[i] /\ (vs[i] = i \/ vs[i] < 0)
    BY <2>2, <2>6, <1>5 DEF InPlace
  <2> QED
    BY <1>1, <1>5, <2>6, <2>7
<1>10. Layout'
  <2>1. \A j \in 1..depth' : ~frames'[j].lost => InPlace(frames[j])'
    BY <1>6, <1>7, <1>9
  <2>2. \A j \in 1..depth' - 1 : Outer(frames'[j])
    BY <1>0, <1>6, <1>7 DEF Layout
  <2>3. \A j, l \in 1..depth' : j < l => frames'[j].reg + 1 < frames'[l].base
    BY <1>0, <1>6, <1>7 DEF Layout
  <2> QED
    BY <2>1, <2>2, <2>3, <1>8 DEF Layout, Outer
<1>11. \A j \in 1..depth' : frames'[j].k = "app" <=> j = 1
  BY <1>0, <1>6, <1>7 DEF EngineInv
<1> QED
  BY <1>0, <1>5, <1>6, <1>7, <1>8, <1>10, <1>11 DEF Placed

LEMMA Still ==
  ASSUME EngineInv, UNCHANGED <<vs, bottom, frames, at, broken>>
  PROVE  Placed' /\ isApp' = isApp /\ depth' = depth
<1>1. depth' = depth /\ cur' = cur /\ isApp' = isApp
  BY DEF depth, cur, isApp
<1>2. Layout => Layout'
  BY <1>1 DEF Layout, InPlace, Outer, Filled
<1> QED
  BY <1>1, <1>2, TypePlaced DEF Placed, Unwound

LEMMA TopFrames ==
  ASSUME EngineInv, NEW g \in Frame, frames' = [frames EXCEPT ![depth] = g]
  PROVE  depth' = depth /\ cur' = g /\ isApp' = isApp
<1>1. Len(frames') = Len(frames) /\ frames'[depth] = g
  BY Facts
<1> QED
  BY <1>1 DEF depth, cur, isApp

LEMMA AppFrame == EngineInv => (isApp <=> cur.k = "app")
BY Facts DEF EngineInv, isApp

(* What the conditions on exceptions amount to, action by action. *)
LEMMA ErrorsClear ==
  ASSUME EngineInv, exc' = NoExc, at' # "failed", broken' => at' = "native"
  PROVE  Errors' /\ ErrorForwarded' /\ exc' \in Exception
BY NoExcFacts DEF Errors, ErrorForwarded

LEMMA ErrorsThrown ==
  ASSUME EngineInv, NEW type \in {"script", "std", "engine", "exit"}, exc' = Thrown(type),
         at' = "native", ~broken' \/ (type = "std" /\ isApp')
  PROVE  Errors' /\ ErrorForwarded' /\ exc' \in Exception
<1>1. exc' \in Exception /\ exc'.t = type /\ exc'.traced = FALSE /\ exc'.err = 0
  BY ExcFacts
<1> QED
  BY <1>1 DEF Errors, ErrorForwarded

(* A value that was just thrown has the last number. *)
LEMMA NewValue ==
  ASSUME thrown \in Seq(Values), NEW kind \in Kinds, NEW text \in Nat, NEW v, v = -next,
         thrown' = Append(thrown, [kind |-> kind, text |-> text])
  PROVE  /\ next \in Nat /\ next > 0 /\ v \in Int /\ v < 0
         /\ thrown' \in Seq(Values) /\ TextOf(v)' = text
<1>1. [kind |-> kind, text |-> text] \in Values
  BY DEF Values
<1>2. Len(thrown) \in Nat
  OBVIOUS
<1>3. /\ thrown' \in Seq(Values) /\ Len(thrown') = Len(thrown) + 1
      /\ thrown'[Len(thrown) + 1] = [kind |-> kind, text |-> text]
  BY <1>1
<1> QED
  BY <1>2, <1>3 DEF next, TextOf

LEMMA ErrorsNew ==
  ASSUME EngineInv, NEW kind \in Kinds, NewError(kind), ~broken',
         at' = "script" \/ (at' = "native" /\ ~isApp')
  PROVE  Errors' /\ ErrorForwarded' /\ exc' \in Exception /\ thrown' \in Seq(Values)
<1>1. thrown \in Seq(Values) /\ next \in Nat
  BY Facts DEF next
<1>2. PICK n \in Nat, v \in Int : n = next /\ v = -next
  BY <1>1
<1>3. n > 0 /\ v \in Int /\ v < 0 /\ v = -n /\ thrown' \in Seq(Values) /\ TextOf(v)' = n
  <2>1. thrown' = Append(thrown, [kind |-> kind, text |-> n])
    BY <1>2 DEF NewError
  <2> QED
    BY <1>1, <1>2, <2>1, NewValue
<1>4. exc' \in Exception /\ exc'.t = "duk" /\ exc'.err = n /\ exc'.val = v /\ exc'.traced = FALSE
  <2>1. exc' = [Thrown("duk") EXCEPT !.val = v, !.err = n]
    BY <1>2 DEF NewError
  <2> QED
    BY <2>1, <1>3, ExcFacts DEF Exception
<1>5. TextOf(exc.val)' = n
  BY <1>3, <1>4 DEF TextOf
<1>6. Errors' /\ ErrorForwarded'
  BY <1>3, <1>4, <1>5 DEF Errors, ErrorForwarded
<1> QED
  BY <1>3, <1>4, <1>6

LEMMA Unprotected ==
  ASSUME EngineInv, ThrowsUnprotected, ~broken, at' = "native", isApp' = isApp
  PROVE  /\ Errors' /\ ErrorForwarded' /\ exc' \in Exception /\ thrown' \in Seq(Values)
         /\ broken' \in BOOLEAN
<1>1. CASE isApp
  BY <1>1, ErrorsThrown, Facts DEF ThrowsUnprotected
<1>2. CASE ~isApp
  BY <1>2, ErrorsNew, Facts DEF ThrowsUnprotected, Kinds
<1> QED
  BY <1>1, <1>2

(* A native function changes its stack, perhaps while a script_error passes. *)
LEMMA ErrorsChanged ==
  ASSUME EngineInv, MayChange, Changed, at' = at, broken' = broken, thrown' = thrown
  PROVE  Errors' /\ ErrorForwarded' /\ exc' \in Exception
<1>0. exc \in Exception /\ Errors
  BY Facts DEF EngineInv
<1>1. /\ exc' \in Exception /\ exc'.t = exc.t /\ exc'.traced = exc.traced /\ exc'.err = exc.err
      /\ exc'.what = exc.what /\ exc'.as = IF exc.traced THEN "other" ELSE exc.as
  BY <1>0 DEF Changed, Exception
<1>2. CASE exc.t = "none"
  <2>1. exc = NoExc /\ exc.traced = FALSE
    BY <1>0, <1>2, NoExcFacts DEF Errors
  <2>2. exc' = NoExc
    BY <1>0, <2>1 DEF Changed, Exception
  <2> QED
    BY <2>2, ErrorsClear DEF MayChange
<1>3. CASE exc.t = "script"
  <2>1. at' = "native" /\ ~broken'
    BY DEF MayChange
  <2>2. Errors'
    BY <1>0, <1>1, <1>3, <2>1 DEF Errors
  <2>3. ErrorForwarded'
    BY <1>1, <1>3 DEF ErrorForwarded
  <2> QED
    BY <1>1, <2>2, <2>3
<1> QED
  BY <1>2, <1>3 DEF MayChange
-----------------------------------------------------------------------------
(* Native code *)

LEMMA PushKeeps == EngineInv /\ Push => EngineInv'
<1> SUFFICES ASSUME EngineInv, Push PROVE EngineInv'
  OBVIOUS
<1> DEFINE g == [cur EXCEPT !.own = @ + 1]
<1>1. at = "native" /\ ~broken /\ UNCHANGED <<bottom, at, thrown, broken>>
      /\ vs' = Append(vs, Len(vs) + 1) /\ MayChange /\ Changed
  BY DEF Push, MayChange
<1>2. /\ bottom = cur.base /\ Len(vs) >= cur.base /\ (~cur.lost => Len(vs) = cur.base + cur.own)
      /\ Layout
  BY <1>1, Native
<1>3. cur.base \in Nat /\ cur.own \in Nat /\ Len(vs) \in Nat /\ vs \in Seq(Int) /\ cur \in Frame
  BY Facts, FrameFields
<1>4. g \in Frame /\ g.base = cur.base /\ g.k = cur.k /\ g.own = cur.own + 1 /\ g.lost = cur.lost
  BY <1>3 DEF Frame
<1>5. frames' = [frames EXCEPT ![depth] = g]
  BY Facts DEF Push, cur
<1>6. /\ vs' \in Seq(Int) /\ Len(vs') = Len(vs) + 1 /\ vs'[Len(vs) + 1] = Len(vs) + 1
      /\ \A i \in 1..Len(vs) : vs'[i] = vs[i]
  BY <1>1, <1>3
<1>7. depth' = depth /\ cur' = g /\ isApp' = isApp
  BY <1>4, <1>5, TopFrames
<1> HIDE DEF g
<1>8. \A i \in 1..cur.base : vs'[i] = vs[i]
  BY <1>2, <1>3, <1>6
<1>9. ~g.lost => \A i \in g.base + 1 .. g.base + g.own : i <= Len(vs') /\ (vs'[i] = i \/ vs'[i] < 0)
  <2> SUFFICES ASSUME ~g.lost, NEW i \in g.base + 1 .. g.base + g.own
               PROVE  i <= Len(vs') /\ (vs'[i] = i \/ vs'[i] < 0)
    OBVIOUS
  <2>1. InPlace(cur)
    BY <1>2, <1>4, Facts DEF Layout
  <2>2. i = Len(vs) + 1 \/ i \in cur.base + 1 .. cur.base + cur.own
    BY <1>2, <1>3, <1>4
  <2>3. CASE i = Len(vs) + 1
    BY <2>3, <1>3, <1>6
  <2>4. CASE i \in cur.base + 1 .. cur.base + cur.own
    <3>1. i <= Len(vs) /\ (vs[i] = i \/ vs[i] < 0)
      BY <2>1, <2>4 DEF InPlace
    <3>2. i \in 1..Len(vs)
      BY <3>1, <2>4, <1>3
    <3> QED
      BY <3>1, <3>2, <1>3, <1>6
  <2> QED
    BY <2>2, <2>3, <2>4
<1>10. Filled' /\ Unwound' /\ bottom' \in Nat /\ bottom' <= Len(vs')
  BY <1>1, <1>2, <1>3, <1>4, <1>6, <1>7 DEF Filled, Unwound
<1>11. cur.base <= Len(vs')
  BY <1>2, <1>3, <1>6
<1>12. Placed'
  BY <1>1, <1>4, <1>5, <1>6, <1>8, <1>9, <1>10, <1>11, TopStep
<1>13. Errors' /\ ErrorForwarded' /\ exc' \in Exception
  BY <1>1, ErrorsChanged
<1> QED
  BY <1>1, <1>12, <1>13, Facts, Together

LEMMA PopKeeps == EngineInv /\ Pop => EngineInv'
<1> SUFFICES ASSUME EngineInv, Pop PROVE EngineInv'
  OBVIOUS
<1> DEFINE g == [cur EXCEPT !.own = @ - 1]
<1>1. at = "native" /\ ~broken /\ UNCHANGED <<bottom, at, thrown, broken>>
      /\ vs' = Keep(Len(vs) - 1) /\ cur.own > 0 /\ Len(vs) > bottom /\ MayChange /\ Changed
  BY DEF Pop, MayChange
<1>2. /\ bottom = cur.base /\ Len(vs) >= cur.base /\ (~cur.lost => Len(vs) = cur.base + cur.own)
      /\ Layout
  BY <1>1, Native
<1>3. cur.base \in Nat /\ cur.own \in Nat /\ Len(vs) \in Nat /\ vs \in Seq(Int) /\ cur \in Frame
  BY Facts, FrameFields
<1>4. g \in Frame /\ g.base = cur.base /\ g.k = cur.k /\ g.own = cur.own - 1 /\ g.lost = cur.lost
  <2>1. cur.own - 1 \in Nat
    BY <1>1, <1>3
  <2> QED
    BY <1>3, <2>1 DEF Frame
<1>5. frames' = [frames EXCEPT ![depth] = g]
  BY Facts DEF Pop, cur
<1>6. /\ vs' \in Seq(Int) /\ Len(vs') = Len(vs) - 1
      /\ \A i \in 1..Len(vs) - 1 : vs'[i] = vs[i]
  <2>1. Len(vs) - 1 \in 0..Len(vs)
    BY <1>1, <1>2, <1>3
  <2> QED
    BY <2>1, <1>1, <1>3, KeepFacts
<1>7. depth' = depth /\ cur' = g /\ isApp' = isApp
  BY <1>4, <1>5, TopFrames
<1> HIDE DEF g
<1>8. \A i \in 1..cur.base : vs'[i] = vs[i]
  <2>1. \A i \in 1..cur.base : i \in 1..Len(vs) - 1
    BY <1>1, <1>2, <1>3
  <2> QED
    BY <2>1, <1>6
<1>9. ~g.lost => \A i \in g.base + 1 .. g.base + g.own : i <= Len(vs') /\ (vs'[i] = i \/ vs'[i] < 0)
  <2> SUFFICES ASSUME ~g.lost, NEW i \in g.base + 1 .. g.base + g.own
               PROVE  i <= Len(vs') /\ (vs'[i] = i \/ vs'[i] < 0)
    OBVIOUS
  <2>1. InPlace(cur)
    BY <1>2, <1>4, Facts DEF Layout
  <2>2. i \in cur.base + 1 .. cur.base + cur.own /\ i \in 1..Len(vs) - 1
    BY <1>2, <1>3, <1>4
  <2>3. vs[i] = i \/ vs[i] < 0
    BY <2>1, <2>2 DEF InPlace
  <2> QED
    BY <2>2, <2>3, <1>3, <1>6
<1>10. Filled' /\ Unwound' /\ bottom' \in Nat /\ bottom' <= Len(vs')
  BY <1>1, <1>2, <1>3, <1>4, <1>6, <1>7 DEF Filled, Unwound
<1>11. cur.base <= Len(vs')
  BY <1>1, <1>2, <1>3, <1>6
<1>12. Placed'
  BY <1>1, <1>4, <1>5, <1>6, <1>8, <1>9, <1>10, <1>11, TopStep
<1>13. Errors' /\ ErrorForwarded' /\ exc' \in Exception
  BY <1>1, ErrorsChanged
<1> QED
  BY <1>1, <1>12, <1>13, Facts, Together

LEMMA CallUndefinedKeeps == EngineInv /\ CallUndefined => EngineInv'
<1> SUFFICES ASSUME EngineInv, CallUndefined PROVE EngineInv'
  OBVIOUS
<1>1. at = "native" /\ ~broken /\ UNCHANGED <<vs, bottom, frames, at, thrown, broken>>
      /\ exc' = Thrown("script")
  BY DEF CallUndefined, InControl
<1>2. Placed' /\ isApp' = isApp
  BY <1>1, Still
<1>3. Errors' /\ ErrorForwarded' /\ exc' \in Exception
  BY <1>1, ErrorsThrown
<1> QED
  BY <1>1, <1>2, <1>3, Facts, Together

LEMMA NativeThrowsKeeps ==
  ASSUME EngineInv, NEW type \in {"script", "std", "engine", "exit"}, NativeThrows(type)
  PROVE  EngineInv'
<1>1. at = "native" /\ ~broken /\ UNCHANGED <<vs, bottom, frames, at, thrown, broken>>
      /\ exc' = Thrown(type)
  BY DEF NativeThrows, InControl
<1>2. Placed' /\ isApp' = isApp
  BY <1>1, Still
<1>3. Errors' /\ ErrorForwarded' /\ exc' \in Exception
  BY <1>1, ErrorsThrown
<1> QED
  BY <1>1, <1>2, <1>3, Facts, Together

LEMMA NativeCatchesKeeps == EngineInv /\ NativeCatches => EngineInv'
<1> SUFFICES ASSUME EngineInv, NativeCatches PROVE EngineInv'
  OBVIOUS
<1>1. at = "native" /\ UNCHANGED <<vs, bottom, frames, at, thrown, broken>> /\ exc' = NoExc
  BY DEF NativeCatches
<1>2. Placed' /\ isApp' = isApp
  BY <1>1, Still
<1>3. Errors' /\ ErrorForwarded' /\ exc' \in Exception
  BY <1>1, ErrorsClear
<1> QED
  BY <1>1, <1>2, <1>3, Facts, Together

LEMMA AppAlone ==
  LET f == NewFrame("app", 0, 0)
  IN  /\ f \in Frame /\ f.k = "app" /\ f.base = 0 /\ f.own = 0 /\ f.reg = 0
      /\ f.op = "none" /\ f.initial_top = 0 /\ f.lost = FALSE
BY DEF NewFrame, Frame

LEMMA ClearKeeps == EngineInv /\ Clear => EngineInv'
<1> SUFFICES ASSUME EngineInv, Clear PROVE EngineInv'
  OBVIOUS
<1> DEFINE f == NewFrame("app", 0, 0)
<1>1. /\ at' = "native" /\ exc' = NoExc /\ vs' = <<>> /\ bottom' = 0 /\ thrown' = <<>>
      /\ broken' = FALSE /\ frames' = <<f>>
  BY DEF Clear, NewHeap
<1>2. f \in Frame /\ f.base = 0 /\ f.own = 0 /\ f.lost = FALSE /\ f.k = "app"
  BY AppAlone
<1> HIDE DEF f
<1>3. frames' \in Seq(Frame) /\ Len(frames') = 1 /\ frames'[1] = f
  BY <1>1, <1>2
<1>4. depth' = 1 /\ cur' = f /\ isApp'
  BY <1>3 DEF depth, cur, isApp
<1>5. vs' \in Seq(Int) /\ Len(vs') = 0 /\ thrown' \in Seq(Values)
  BY <1>1
<1>6. Layout' /\ Unwound'
  BY <1>1, <1>2, <1>3, <1>4, <1>5 DEF Layout, InPlace, Filled, Unwound
<1>7. Placed'
  BY <1>1, <1>2, <1>3, <1>4, <1>5, <1>6 DEF Placed
<1>8. Errors' /\ ErrorForwarded' /\ exc' \in Exception
  BY <1>1, <1>4, ErrorsClear
<1> QED
  BY <1>1, <1>5, <1>7, <1>8, Together

LEMMA RunScriptKeeps ==
  ASSUME EngineInv, NEW op \in {"eval", "call", "raw"}, RunScript(op)
  PROVE  EngineInv'
<1> DEFINE g == [cur EXCEPT !.op = op, !.initial_top = Len(vs) - bottom, !.reg = Len(vs) + 2]
<1>1. /\ at = "native" /\ exc = NoExc /\ ~broken /\ UNCHANGED <<exc, thrown, broken>>
      /\ at' = "script" /\ vs' = vs \o <<0, 0, 0>> /\ bottom' = Len(vs) + 2 /\ (op = "raw" => ~isApp)
  BY DEF RunScript, InControl, tmp
<1>2. /\ bottom = cur.base /\ Len(vs) >= cur.base /\ (~cur.lost => Len(vs) = cur.base + cur.own)
      /\ Layout
  BY <1>1, Native
<1>3. cur.base \in Nat /\ cur.own \in Nat /\ Len(vs) \in Nat /\ vs \in Seq(Int) /\ cur \in Frame
  BY Facts, FrameFields
<1>4. /\ g \in Frame /\ g.base = cur.base /\ g.k = cur.k /\ g.own = cur.own /\ g.lost = cur.lost
      /\ g.op = op /\ g.initial_top = Len(vs) - bottom /\ g.reg = Len(vs) + 2
  <2>1. Len(vs) - bottom \in Nat /\ Len(vs) + 2 \in Nat
    BY <1>2, <1>3
  <2> QED
    BY <1>3, <2>1 DEF Frame
<1>5. frames' = [frames EXCEPT ![depth] = g]
  BY Facts DEF RunScript, cur
<1>6. /\ vs' \in Seq(Int) /\ Len(vs') = Len(vs) + 3 /\ \A i \in 1..Len(vs) : vs'[i] = vs[i]
  BY <1>1, <1>3
<1>7. depth' = depth /\ cur' = g /\ isApp' = isApp
  BY <1>4, <1>5, TopFrames
<1> HIDE DEF g
<1>8. \A i \in 1..cur.base : vs'[i] = vs[i]
  BY <1>2, <1>3, <1>6
<1>9. ~g.lost => \A i \in g.base + 1 .. g.base + g.own : i <= Len(vs') /\ (vs'[i] = i \/ vs'[i] < 0)
  <2> SUFFICES ASSUME ~g.lost, NEW i \in g.base + 1 .. g.base + g.own
               PROVE  i <= Len(vs') /\ (vs'[i] = i \/ vs'[i] < 0)
    OBVIOUS
  <2>1. InPlace(cur)
    BY <1>2, <1>4, Facts DEF Layout
  <2>2. i \in cur.base + 1 .. cur.base + cur.own /\ i \in 1..Len(vs)
    BY <1>2, <1>3, <1>4
  <2>3. vs[i] = i \/ vs[i] < 0
    BY <2>1, <2>2 DEF InPlace
  <2> QED
    BY <2>2, <2>3, <1>3, <1>6
<1>10. Filled' /\ Unwound' /\ bottom' \in Nat /\ bottom' <= Len(vs')
  <2>1. g.k = "app" => g.op # "raw"
    BY <1>1, <1>4, AppFrame
  <2>2. Outer(g)
    BY <2>1, <1>2, <1>3, <1>4 DEF Outer
  <2>3. Outer(cur)'
    BY <2>2, <1>7 DEF Outer
  <2>4. Len(vs') = g.reg + 1 /\ bottom' = g.reg
    BY <1>1, <1>3, <1>4, <1>6
  <2> QED
    BY <1>1, <1>3, <1>6, <1>7, <2>3, <2>4 DEF Filled, Unwound
<1>11. cur.base <= Len(vs')
  BY <1>2, <1>3, <1>6
<1>12. Placed'
  BY <1>1, <1>4, <1>5, <1>6, <1>8, <1>9, <1>10, <1>11, TopStep
<1>13. Errors' /\ ErrorForwarded' /\ exc' \in Exception
  BY <1>1, ErrorsClear
<1> QED
  BY <1>1, <1>12, <1>13, Facts, Together

LEMMA NativeReturnsKeeps == EngineInv /\ NativeReturns => EngineInv'
<1> SUFFICES ASSUME EngineInv, NativeReturns PROVE EngineInv'
  OBVIOUS
<1>1. /\ at = "native" /\ exc = NoExc /\ ~broken /\ ~isApp /\ UNCHANGED <<exc, thrown, broken>>
      /\ BackToScript /\ at' = "script"
  BY DEF NativeReturns, InControl, BackToScript
<1>2. Placed'
  BY <1>1, Return
<1>3. Errors' /\ ErrorForwarded' /\ exc' \in Exception
  BY <1>1, ErrorsClear
<1> QED
  BY <1>1, <1>2, <1>3, Facts, Together
-----------------------------------------------------------------------------
(* Scripts *)

LEMMA ScriptThrowsKeeps ==
  ASSUME EngineInv, NEW kind \in Kinds, ScriptThrows(kind)
  PROVE  EngineInv'
<1>1. at = "script" /\ UNCHANGED <<vs, bottom, frames, at, broken>> /\ NewError(kind)
  BY DEF ScriptThrows
<1>2. ~broken
  BY <1>1, Script
<1>3. Placed'
  BY <1>1, Still
<1>4. Errors' /\ ErrorForwarded' /\ exc' \in Exception /\ thrown' \in Seq(Values)
  BY <1>1, <1>2, ErrorsNew
<1> QED
  BY <1>1, <1>3, <1>4, Facts, Together

LEMMA ScriptCatchesKeeps == EngineInv /\ ScriptCatches => EngineInv'
<1> SUFFICES ASSUME EngineInv, ScriptCatches PROVE EngineInv'
  OBVIOUS
<1>1. /\ at = "script" /\ exc' = NoExc /\ vs' = Keep(cur.reg + 1)
      /\ UNCHANGED <<bottom, frames, at, thrown, broken>>
  BY DEF ScriptCatches
<1>2. ~broken /\ Len(vs) = cur.reg + 1
  BY <1>1, Script
<1>3. vs \in Seq(Int) /\ Len(vs) \in Nat
  BY Facts
<1>4. vs' = vs
  BY <1>1, <1>2, <1>3 DEF Keep
<1>5. Placed'
  BY <1>1, <1>4, Still
<1>6. Errors' /\ ErrorForwarded' /\ exc' \in Exception
  BY <1>1, <1>2, ErrorsClear
<1> QED
  BY <1>1, <1>5, <1>6, Facts, Together

LEMMA Arguments ==
  ASSUME NEW s \in Seq(Int), NEW k \in Nat, NEW p, p = Len(s) + 2, NEW t,
         t = s \o <<0, 0>> \o [i \in 1..k |-> p + i]
  PROVE  /\ t \in Seq(Int) /\ Len(t) = p + k
         /\ \A i \in 1..Len(s) : t[i] = s[i]
         /\ \A i \in p + 1 .. p + k : t[i] = i
<1>0. Len(s) \in Nat /\ p \in Nat
  OBVIOUS
<1>1. PICK a : a = [i \in 1..k |-> p + i]
  OBVIOUS
<1>2. a \in Seq(Int) /\ Len(a) = k /\ \A i \in 1..k : a[i] = p + i
  BY <1>0, <1>1
<1>3. PICK b : b = s \o <<0, 0>>
  OBVIOUS
<1>4. b \in Seq(Int) /\ Len(b) = p /\ \A i \in 1..Len(s) : b[i] = s[i]
  BY <1>0, <1>3
<1>5. t = b \o a
  BY <1>1, <1>3
<1>6. /\ t \in Seq(Int) /\ Len(t) = p + k
      /\ \A i \in 1..p + k : t[i] = IF i <= p THEN b[i] ELSE a[i - p]
  <2>1. b \in Seq(Int) /\ a \in Seq(Int)
    BY <1>2, <1>4
  <2>2. /\ b \o a \in Seq(Int) /\ Len(b \o a) = Len(b) + Len(a)
        /\ \A i \in 1..Len(b) + Len(a) : (b \o a)[i] = IF i <= Len(b) THEN b[i] ELSE a[i - Len(b)]
    BY <2>1, ConcatProperties, Zenon
  <2>3. Len(b) = p /\ Len(a) = k
    BY <1>2, <1>4
  <2> QED
    BY <2>2, <2>3, <1>5, Zenon
<1>7. \A i \in p + 1 .. p + k : t[i] = i
  <2> SUFFICES ASSUME NEW i \in p + 1 .. p + k PROVE t[i] = i
    OBVIOUS
  <2>1. i \in 1..p + k /\ ~(i <= p) /\ i - p \in 1..k /\ p + (i - p) = i
    BY <1>0
  <2> QED
    BY <2>1, <1>2, <1>6
<1>8. \A i \in 1..Len(s) : t[i] = s[i]
  <2> SUFFICES ASSUME NEW i \in 1..Len(s) PROVE t[i] = s[i]
    OBVIOUS
  <2>1. i \in 1..p + k /\ i <= p
    BY <1>0
  <2> QED
    BY <2>1, <1>4, <1>6
<1> QED
  BY <1>6, <1>7, <1>8

LEMMA CallNativeKeeps ==
  ASSUME EngineInv, NEW kind \in {"function", "method", "constructor"}, NEW args \in 0..MaxOwn,
         CallNative(kind, args)
  PROVE  EngineInv'
<1> DEFINE n    == Len(vs)
           base == n + 2
           f    == NewFrame(kind, base, args)
<1>0. args \in Nat /\ n \in Nat /\ vs \in Seq(Int) /\ frames \in Seq(Frame) /\ depth \in Nat
      /\ depth > 0 /\ depth = Len(frames) /\ (\A j \in 1..depth : frames[j] \in Frame)
      /\ cur = frames[depth]
  BY Facts, EngineAssumption
<1>1. /\ at = "script" /\ exc = NoExc /\ at' = "native" /\ UNCHANGED <<exc, thrown, broken>>
      /\ bottom' = base /\ frames' = Append(frames, f)
      /\ vs' = vs \o <<0, 0>> \o [i \in 1..args |-> base + i]
  BY DEF CallNative, tmp
<1>2. ~broken /\ Layout /\ n = cur.reg + 1 /\ cur.reg = cur.base + cur.initial_top + 2 /\ Outer(cur)
  BY <1>1, Script DEF Layout, Filled
<1>3. /\ f \in Frame /\ f.k = kind /\ f.base = base /\ f.own = args /\ f.lost = FALSE
      /\ f.k # "app"
  BY <1>0 DEF NewFrame, Frame
<1>4. /\ vs' \in Seq(Int) /\ Len(vs') = base + args
      /\ \A i \in 1..n : vs'[i] = vs[i]
      /\ \A i \in base + 1 .. base + args : vs'[i] = i
  BY <1>0, <1>1, Arguments
<1> HIDE DEF f
<1>5. /\ frames' \in Seq(Frame) /\ Len(frames') = depth + 1 /\ frames'[depth + 1] = f
      /\ \A j \in 1..depth : frames'[j] = frames[j]
  BY <1>0, <1>1, <1>3
<1>6. depth' = depth + 1 /\ cur' = f
  BY <1>5 DEF depth, cur
<1>7. cur.base \in Nat /\ cur.initial_top \in Nat /\ cur.reg \in Nat
  BY <1>0, FrameFields
<1>8. \A j \in 1..depth : frames[j].reg + 1 < base
  <2> SUFFICES ASSUME NEW j \in 1..depth PROVE frames[j].reg + 1 < base
    OBVIOUS
  <2>1. frames[j].reg \in Nat
    BY <1>0, FrameFields
  <2> HIDE DEF n
  <2>2. CASE j = depth
    BY <2>1, <2>2, <1>0, <1>2, <1>7
  <2>3. CASE j # depth
    <3>1. frames[j].reg + 1 < cur.base
      <4>1. j < depth /\ depth \in 1..depth
        BY <2>3, <1>0
      <4> QED
        BY <4>1, <1>0, <1>2 DEF Layout
    <3>2. n \in Nat /\ n = cur.reg + 1 /\ cur.reg = cur.base + cur.initial_top + 2
      BY <1>0, <1>2
    <3> QED
      BY <3>1, <3>2, <2>1, <1>7
  <2> QED
    BY <2>2, <2>3
<1>9. \A j \in 1..depth : ~frames[j].lost => InPlace(frames[j])'
  <2> SUFFICES ASSUME NEW j \in 1..depth, ~frames[j].lost,
                      NEW i \in frames[j].base + 1 .. frames[j].base + frames[j].own
               PROVE  i <= Len(vs') /\ (vs'[i] = i \/ vs'[i] < 0)
    BY <1>5 DEF InPlace
  <2>1. i <= n /\ (vs[i] = i \/ vs[i] < 0)
    BY <1>2 DEF Layout, InPlace
  <2>2. i \in 1..n
    <3>1. frames[j].base \in Nat /\ frames[j].own \in Nat
      BY <1>0, FrameFields
    <3> HIDE DEF n
    <3> QED
      BY <3>1, <2>1, <1>0
  <2>3. i <= base + args
    <3> HIDE DEF n
    <3> QED
      BY <2>2, <1>0
  <2> QED
    BY <2>1, <2>2, <2>3, <1>4
<1>10. Layout'
  <2>1. ASSUME NEW j \in 1..depth' PROVE ~frames'[j].lost => InPlace(frames[j])'
    <3>1. CASE j \in 1..depth
      BY <3>1, <1>5, <1>9
    <3>2. CASE j = depth + 1
      <4>1. \A i \in base + 1 .. base + args : i <= base + args /\ vs'[i] = i
        BY <1>4
      <4> QED
        BY <3>2, <4>1, <1>3, <1>4, <1>5 DEF InPlace
    <3> QED
      BY <3>1, <3>2, <1>0, <1>6
  <2>2. \A j \in 1..depth' - 1 : Outer(frames'[j])
    <3>1. ASSUME NEW j \in 1..depth PROVE Outer(frames[j])
      <4>1. CASE j = depth
        BY <4>1, <1>0, <1>2
      <4>2. CASE j # depth
        BY <4>2, <1>0, <1>2 DEF Layout
      <4> QED
        BY <4>1, <4>2
    <3> QED
      BY <3>1, <1>0, <1>5, <1>6
  <2>3. ASSUME NEW j \in 1..depth', NEW l \in 1..depth', j < l
        PROVE  frames'[j].reg + 1 < frames'[l].base
    <3>1. j \in 1..depth
      BY <2>3, <1>0, <1>6
    <3>2. CASE l = depth + 1
      BY <3>1, <3>2, <1>3, <1>5, <1>8
    <3>3. CASE l \in 1..depth
      BY <3>1, <3>3, <2>3, <1>2, <1>5 DEF Layout
    <3> QED
      BY <3>2, <3>3, <1>0, <1>6
  <2>4. Filled'
    <3>1. base + args >= base
      BY <1>0
    <3> QED
      BY <3>1, <1>1, <1>3, <1>4, <1>6 DEF Filled
  <2> QED
    BY <2>1, <2>2, <2>3, <2>4 DEF Layout, Outer
<1>11. \A j \in 1..depth' : frames'[j].k = "app" <=> j = 1
  <2>1. \A j \in 1..depth : frames[j].k = "app" <=> j = 1
    BY DEF EngineInv
  <2> QED
    BY <2>1, <1>0, <1>3, <1>5, <1>6
<1>12. Unwound' /\ bottom' \in Nat /\ bottom' <= Len(vs')
  <2>1. base \in Nat /\ base <= base + args
    BY <1>0
  <2> QED
    BY <2>1, <1>1, <1>3, <1>4, <1>6 DEF Unwound
<1>13. Placed'
  BY <1>0, <1>4, <1>5, <1>10, <1>11, <1>12 DEF Placed
<1>14. Errors' /\ ErrorForwarded' /\ exc' \in Exception
  BY <1>1, <1>2, ErrorsClear
<1> QED
  BY <1>1, <1>13, <1>14, Facts, Together

-----------------------------------------------------------------------------
(* eval() and call() after the script *)

LEMMA Three ==
  ASSUME NEW k \in Seq(Int), NEW v \in Int
  PROVE  LET t == k \o <<0, 0, v>>
         IN  t \in Seq(Int) /\ Len(t) = Len(k) + 3 /\ t[Len(k) + 3] = v /\ \A i \in 1..Len(k) : t[i] = k[i]
<1>1. Len(k) \in Nat /\ <<0, 0, v>> \in Seq(Int) /\ Len(<<0, 0, v>>) = 3 /\ <<0, 0, v>>[3] = v
  OBVIOUS
<1> QED
  BY <1>1

LEMMA ResultFacts ==
  ASSUME EngineInv, at \in {"script", "failed"}, NEW v \in Int
  PROVE  /\ entry \in Nat /\ cur.base <= entry /\ Len(vs) = entry + 3
         /\ Result(v) \in Seq(Int) /\ Len(Result(v)) = entry + 3 /\ Result(v)[entry + 3] = v
         /\ \A i \in 1..entry : Result(v)[i] = vs[i]
         /\ Guarded(Result(v), entry) \in Seq(Int) /\ Len(Guarded(Result(v), entry)) = entry
         /\ \A i \in 1..entry : Guarded(Result(v), entry)[i] = vs[i]
<1>1. /\ cur.base \in Nat /\ cur.initial_top \in Nat /\ cur.reg \in Nat
      /\ Len(vs) \in Nat /\ vs \in Seq(Int)
  BY Facts, FrameFields
<1>2. /\ cur.reg = cur.base + cur.initial_top + 2 /\ entry = cur.base + cur.initial_top
      /\ Len(vs) = cur.reg + 1
  BY Script
<1>3. entry \in Nat /\ cur.base <= entry /\ Len(vs) = entry + 3
  BY <1>1, <1>2, SMTT(30)
<1>4. entry \in 0..Len(vs)
  BY <1>1, <1>3
<1>5. Keep(entry) \in Seq(Int) /\ Len(Keep(entry)) = entry /\ \A i \in 1..entry : Keep(entry)[i] = vs[i]
  BY <1>1, <1>4, KeepFacts
<1>6. PICK k : k = Keep(entry)
  OBVIOUS
<1>7. PICK n : n = entry
  OBVIOUS
<1>8. PICK r : r = Result(v)
  OBVIOUS
<1>9. r = k \o <<0, 0, v>>
  BY <1>6, <1>8 DEF Result, tmp
<1>10. n \in Nat /\ k \in Seq(Int) /\ Len(k) = n /\ \A i \in 1..n : k[i] = vs[i]
  BY <1>3, <1>5, <1>6, <1>7
<1>11. r \in Seq(Int) /\ Len(r) = n + 3 /\ r[n + 3] = v /\ \A i \in 1..n : r[i] = k[i]
  <2>1. k \in Seq(Int) /\ Len(k) = n
    BY <1>10
  <2>2. LET t == k \o <<0, 0, v>>
        IN  t \in Seq(Int) /\ Len(t) = Len(k) + 3 /\ t[Len(k) + 3] = v /\ \A i \in 1..Len(k) : t[i] = k[i]
    BY <2>1, Three, Zenon
  <2> QED
    BY <2>1, <2>2, <1>9, Zenon
<1>12. Guarded(r, n) = SubSeq(r, 1, n)
  BY <1>10, <1>11 DEF Guarded
<1>13. n \in 0..Len(r)
  BY <1>10, <1>11
<1>14. SubSeq(r, 1, n) \in Seq(Int) /\ Len(SubSeq(r, 1, n)) = n /\ \A i \in 1..n : SubSeq(r, 1, n)[i] = r[i]
  BY <1>11, <1>13, First
<1> QED
  BY <1>3, <1>7, <1>8, <1>10, <1>11, <1>12, <1>14

(* The function that ran the script goes on: with its values in place and  *)
(* extra ones on top of them, or with its values cleared.                  *)
LEMMA OpDone ==
  ASSUME EngineInv, at \in {"script", "failed"}, at' \notin {"script", "failed"},
         NEW n \in Nat, NEW cleared \in BOOLEAN, frames' = OpEnds(n, cleared),
         bottom' = cur.base, vs' \in Seq(Int), cur.base <= Len(vs'),
         \A i \in 1..cur.base : vs'[i] = vs[i],
         ~cleared => /\ Len(vs') = entry + n
                     /\ \A i \in 1..entry : vs'[i] = vs[i]
                     /\ \A i \in entry + 1 .. entry + n : vs'[i] < 0
  PROVE  Placed' /\ isApp' = isApp
<1> DEFINE g == [cur EXCEPT !.own = @ + n, !.op = "none", !.initial_top = 0, !.reg = 0,
                            !.lost = @ \/ cleared]
<1>1. /\ ~broken /\ Layout /\ entry = cur.base + cur.initial_top /\ Len(vs) = cur.reg + 1
      /\ cur.reg = cur.base + cur.initial_top + 2 /\ (~cur.lost => cur.initial_top = cur.own)
  BY Script
<1>2. /\ cur.base \in Nat /\ cur.own \in Nat /\ cur.initial_top \in Nat /\ cur \in Frame
      /\ cur.lost \in BOOLEAN
  BY Facts, FrameFields
<1>3. g \in Frame
  <2>1. cur.own + n \in Nat /\ (cur.lost \/ cleared) \in BOOLEAN
    BY <1>2
  <2> QED
    BY <1>2, <2>1 DEF Frame
<1>4. /\ g.base = cur.base /\ g.k = cur.k /\ g.own = cur.own + n
      /\ (~g.lost => ~cur.lost /\ ~cleared)
  BY <1>2 DEF Frame
<1>5. frames' = [frames EXCEPT ![depth] = g]
  BY Facts DEF OpEnds, cur
<1>6. depth' = depth /\ cur' = g /\ isApp' = isApp
  BY <1>3, <1>5, TopFrames
<1> HIDE DEF g
<1>7. ~g.lost => \A i \in g.base + 1 .. g.base + g.own : i <= Len(vs') /\ (vs'[i] = i \/ vs'[i] < 0)
  <2> SUFFICES ASSUME ~g.lost, NEW i \in g.base + 1 .. g.base + g.own
               PROVE  i <= Len(vs') /\ (vs'[i] = i \/ vs'[i] < 0)
    OBVIOUS
  <2>1. ~cur.lost /\ ~cleared /\ entry = cur.base + cur.own
    BY <1>1, <1>4
  <2>2. InPlace(cur)
    BY <2>1, <1>1, Facts DEF Layout
  <2>3. i \in entry + 1 .. entry + n \/ (i \in cur.base + 1 .. cur.base + cur.own /\ i \in 1..entry)
    BY <2>1, <1>2, <1>4
  <2>4. i <= Len(vs')
    BY <2>1, <1>2, <1>4
  <2>5. CASE i \in entry + 1 .. entry + n
    BY <2>1, <2>4, <2>5
  <2>6. CASE i \in cur.base + 1 .. cur.base + cur.own /\ i \in 1..entry
    BY <2>1, <2>2, <2>4, <2>6 DEF InPlace
  <2> QED
    BY <2>3, <2>5, <2>6
<1>8. Filled' /\ Unwound' /\ bottom' \in Nat /\ bottom' <= Len(vs')
  <2>1. ~g.lost => Len(vs') = g.base + g.own
    BY <1>1, <1>2, <1>4
  <2>2. Len(vs') \in Nat /\ Len(vs') >= g.base
    BY <1>2, <1>4
  <2> QED
    BY <2>1, <2>2, <1>2, <1>4, <1>6 DEF Filled, Unwound
<1>9. Placed'
  BY <1>1, <1>3, <1>4, <1>5, <1>7, <1>8, TopStep
<1> QED
  BY <1>6, <1>9

(* What the guard leaves when the script has come back with a result. *)
LEMMA OpGuarded ==
  ASSUME EngineInv, at = "script", at' \in {"native", "over"}, frames' = OpEnds(0, FALSE),
         bottom' = cur.base, vs' = Guarded(Result(tmp), entry)
  PROVE  Placed' /\ isApp' = isApp
<1>1. tmp \in Int
  BY DEF tmp
<1>2. /\ entry \in Nat /\ cur.base <= entry /\ vs' \in Seq(Int) /\ Len(vs') = entry
      /\ \A i \in 1..entry : vs'[i] = vs[i]
  BY <1>1, ResultFacts
<1>3. cur.base \in Nat
  BY Facts, FrameFields
<1>4. /\ \A i \in 1..cur.base : vs'[i] = vs[i]
      /\ \A i \in entry + 1 .. entry + 0 : vs'[i] < 0
      /\ Len(vs') = entry + 0 /\ cur.base <= Len(vs')
  BY <1>2, <1>3
<1> QED
  BY <1>2, <1>4, OpDone

LEMMA ScriptReturnsKeeps == EngineInv /\ ScriptReturns => EngineInv'
<1> SUFFICES ASSUME EngineInv, ScriptReturns PROVE EngineInv'
  OBVIOUS
<1>1. /\ at = "script" /\ exc = NoExc /\ at' = "native" /\ UNCHANGED <<exc, thrown, broken>>
  BY DEF ScriptReturns
<1>2. Placed'
  BY <1>1, OpGuarded DEF ScriptReturns
<1>3. ~broken
  BY <1>1, Script
<1>4. Errors' /\ ErrorForwarded' /\ exc' \in Exception
  BY <1>1, <1>3, ErrorsClear
<1> QED
  BY <1>1, <1>2, <1>4, Facts, Together

LEMMA WrongTypeKeeps == EngineInv /\ WrongType => EngineInv'
<1> SUFFICES ASSUME EngineInv, WrongType PROVE EngineInv'
  OBVIOUS
<1>1. /\ at = "script" /\ exc' = Thrown("script") /\ at' = "native" /\ UNCHANGED <<thrown, broken>>
      /\ bottom' = cur.base
  BY DEF WrongType
<1>2. ~broken
  BY <1>1, Script
<1>3. ASSUME cur.op = "call" PROVE Placed'
  <2>1. frames' = OpEnds(0, TRUE) /\ vs' = Keep(cur.base)
    BY <1>3 DEF WrongType
  <2>2. tmp \in Int
    BY DEF tmp
  <2>3. cur.base \in Nat /\ entry \in Nat /\ cur.base <= entry /\ Len(vs) = entry + 3 /\ vs \in Seq(Int)
    BY <1>1, <2>2, Facts, FrameFields, ResultFacts
  <2>4. cur.base \in 0..Len(vs)
    BY <2>3
  <2>5. vs' \in Seq(Int) /\ Len(vs') = cur.base /\ \A i \in 1..cur.base : vs'[i] = vs[i]
    BY <2>1, <2>3, <2>4, KeepFacts
  <2>6. cur.base <= Len(vs')
    BY <2>3, <2>5
  <2> QED
    BY <1>1, <2>1, <2>5, <2>6, OpDone
<1>4. ASSUME cur.op # "call" PROVE Placed'
  <2>1. frames' = OpEnds(0, FALSE) /\ vs' = Guarded(Result(tmp), entry)
    BY <1>4 DEF WrongType
  <2> QED
    BY <1>1, <2>1, OpGuarded
<1>5. Placed'
  BY <1>3, <1>4
<1>6. Errors' /\ ErrorForwarded' /\ exc' \in Exception
  BY <1>1, <1>2, ErrorsThrown
<1> QED
  BY <1>1, <1>5, <1>6, Facts, Together

LEMMA ConversionThrowsKeeps == EngineInv /\ ConversionThrows => EngineInv'
<1> SUFFICES ASSUME EngineInv, ConversionThrows PROVE EngineInv'
  OBVIOUS
<1>1. /\ at = "script" /\ exc = NoExc /\ at' \in {"native", "over"}
      /\ bottom' = cur.base /\ frames' = OpEnds(0, FALSE) /\ vs' = Guarded(Result(tmp), entry)
  BY DEF ConversionThrows
<1>2. Placed' /\ isApp' = isApp
  BY <1>1, OpGuarded
<1>3. ~broken
  BY <1>1, Script
<1>4. CASE at' = "native"
  <2>1. ThrowsUnprotected
    BY <1>4 DEF ConversionThrows
  <2> QED
    BY <1>2, <1>3, <1>4, <2>1, Unprotected, Together
<1>5. CASE at' = "over"
  <2>1. UNCHANGED <<exc, thrown, broken>>
    BY <1>5 DEF ConversionThrows
  <2>2. Errors' /\ ErrorForwarded' /\ exc' \in Exception
    BY <2>1, <1>1, <1>3, <1>5, ErrorsClear
  <2> QED
    BY <1>2, <1>5, <2>1, <2>2, Facts, Together
<1> QED
  BY <1>1, <1>4, <1>5

LEMMA ScriptFailsKeeps == EngineInv /\ ScriptFails => EngineInv'
<1> SUFFICES ASSUME EngineInv, ScriptFails PROVE EngineInv'
  OBVIOUS
<1>1. at = "script" /\ exc.t = "duk" /\ UNCHANGED <<exc, thrown, broken>>
  BY DEF ScriptFails
<1>2. /\ ~broken /\ Layout /\ Outer(cur) /\ Len(vs) = cur.reg + 1
      /\ cur.reg = cur.base + cur.initial_top + 2 /\ entry = cur.base + cur.initial_top
      /\ (~cur.lost => cur.initial_top = cur.own)
  BY <1>1, Script DEF Layout, Filled
<1>3. /\ exc.val \in Int /\ exc.val < 0 /\ exc.err > 0 /\ ~exc.traced /\ exc \in Exception
      /\ ErrorForwarded
  BY <1>1, Facts DEF EngineInv, Errors, Exception
<1>f. ErrorForwarded'
  BY <1>1, <1>3 DEF ErrorForwarded, TextOf
<1>4. CASE Protected
  <2>1. at' = "failed" /\ bottom' = cur.base /\ vs' = Result(exc.val) /\ frames' = frames
    BY <1>4 DEF ScriptFails
  <2>2. /\ entry \in Nat /\ cur.base <= entry /\ vs' \in Seq(Int) /\ Len(vs') = entry + 3
        /\ vs'[entry + 3] = exc.val /\ \A i \in 1..entry : vs'[i] = vs[i]
    BY <2>1, <1>1, <1>3, ResultFacts
  <2>3. cur.base \in Nat /\ cur.own \in Nat /\ cur.initial_top \in Nat /\ cur.reg \in Nat
    BY Facts, FrameFields
  <2>4. cur \in Frame /\ frames' = [frames EXCEPT ![depth] = cur] /\ cur' = cur /\ depth' = depth
    BY <2>1, SameFrames, TopFrames
  <2>5. ~cur.lost => \A i \in cur.base + 1 .. cur.base + cur.own :
                       i <= Len(vs') /\ (vs'[i] = i \/ vs'[i] < 0)
    <3> SUFFICES ASSUME ~cur.lost, NEW i \in cur.base + 1 .. cur.base + cur.own
                 PROVE  i <= Len(vs') /\ (vs'[i] = i \/ vs'[i] < 0)
      OBVIOUS
    <3>1. vs[i] = i \/ vs[i] < 0
      BY <1>2, Facts DEF Layout, InPlace
    <3>2. i \in 1..entry /\ i <= entry + 3
      BY <2>3, <1>2
    <3> QED
      BY <3>1, <3>2, <2>2
  <2>6. Outer(cur)' /\ Len(vs') = cur.reg + 1
    <3>1. Outer(cur)'
      BY <1>2, <2>4 DEF Outer
    <3> QED
      BY <3>1, <1>2, <2>2, <2>3
  <2>7. Filled' /\ Unwound'
    BY <2>1, <2>4, <2>6 DEF Filled, Unwound
  <2>8. \A i \in 1..cur.base : vs'[i] = vs[i]
    BY <2>2, <2>3
  <2>9. cur.base <= Len(vs') /\ bottom' \in Nat /\ bottom' <= Len(vs')
    BY <2>1, <2>2, <2>3
  <2>10. Placed'
    BY <1>2, <2>2, <2>4, <2>5, <2>7, <2>8, <2>9, TopStep
  <2>11. Errors'
    BY <1>1, <1>2, <1>3, <2>1, <2>2 DEF Errors
  <2> QED
    BY <1>1, <1>f, <2>1, <2>10, <2>11, Facts, Together
<1>5. CASE ~Protected
  <2>1. BackToScript /\ at' = "script"
    BY <1>5 DEF ScriptFails, BackToScript
  <2>2. ~isApp
    <3>1. cur.op = "raw"
      BY <1>2, <1>5, Facts DEF Protected, Outer, Frame
    <3> QED
      BY <3>1, <1>2, AppFrame DEF Outer
  <2>3. Placed'
    BY <1>1, <1>2, <2>1, <2>2, Return
  <2>4. Errors'
    BY <1>1, <1>2, <1>3, <2>1 DEF Errors
  <2> QED
    BY <1>1, <1>f, <2>1, <2>3, <2>4, Facts, Together
<1> QED
  BY <1>4, <1>5

LEMMA ErrorLeftFacts ==
  ASSUME EngineInv, at = "failed"
  PROVE  /\ entry \in Nat /\ cur.base <= entry /\ Len(vs) = entry + 3
         /\ ErrorLeft \in Seq(Int) /\ Len(ErrorLeft) = entry + 1 /\ ErrorLeft[entry + 1] = vs[Len(vs)]
         /\ \A i \in 1..entry : ErrorLeft[i] = vs[i]
<1>1. entry \in Nat /\ cur.base <= entry /\ Len(vs) = entry + 3 /\ vs \in Seq(Int)
  <2>1. tmp \in Int
    BY DEF tmp
  <2> QED
    BY <2>1, Facts, ResultFacts
<1>2. PICK n : n = entry
  OBVIOUS
<1>3. PICK w : w = SwapTop(vs, n + 1)
  OBVIOUS
<1>4. n \in Nat /\ Len(vs) = n + 3 /\ n + 1 \in 1..Len(vs) /\ n + 3 \in 1..Len(vs)
  BY <1>1, <1>2
<1>5. w = [vs EXCEPT ![n + 1] = vs[n + 3], ![n + 3] = vs[n + 1]]
  BY <1>3, <1>4 DEF SwapTop
<1>6. vs[n + 1] \in Int /\ vs[n + 3] \in Int
  BY <1>1, <1>4, ElementOfSeq
<1>7. w \in Seq(Int) /\ Len(w) = n + 3 /\ w[n + 1] = vs[n + 3] /\ \A i \in 1..n : w[i] = vs[i]
  BY <1>1, <1>4, <1>5, <1>6
<1>8. n + 1 \in 0..Len(w)
  BY <1>4, <1>7
<1>9. /\ SubSeq(w, 1, n + 1) \in Seq(Int) /\ Len(SubSeq(w, 1, n + 1)) = n + 1
      /\ \A i \in 1..n + 1 : SubSeq(w, 1, n + 1)[i] = w[i]
  BY <1>7, <1>8, First
<1>10. ErrorLeft = SubSeq(w, 1, n + 1)
  BY <1>2, <1>3 DEF ErrorLeft
<1>11. /\ SubSeq(w, 1, n + 1)[n + 1] = vs[Len(vs)]
       /\ \A i \in 1..n : SubSeq(w, 1, n + 1)[i] = vs[i]
  BY <1>4, <1>7, <1>9
<1> QED
  BY <1>1, <1>2, <1>9, <1>10, <1>11

(* The value becomes a script_error. *)
LEMMA CaughtAs ==
  ASSUME exc \in Exception, NEW w \in Nat, NEW tr \in BOOLEAN,
         exc' = [exc EXCEPT !.t = "script", !.val = 0, !.what = w, !.traced = tr]
  PROVE  /\ exc' \in Exception /\ exc'.t = "script" /\ exc'.err = exc.err /\ exc'.as = exc.as
         /\ exc'.what = w /\ exc'.traced = tr
<1>1. /\ exc'.t = "script" /\ exc'.err = exc.err /\ exc'.as = exc.as
      /\ exc'.what = w /\ exc'.traced = tr
  BY DEF Exception
<1>2. exc' = [t |-> "script", val |-> 0, what |-> w, traced |-> tr, err |-> exc.err, as |-> exc.as]
  BY DEF Exception
<1>3. exc.err \in Nat /\ exc.as \in {"same", "copy", "other"}
  BY DEF Exception
<1>4. exc' \in Exception
  BY <1>2, <1>3 DEF Exception
<1> QED
  BY <1>1, <1>4

LEMMA OpFailsKeeps == EngineInv /\ OpFails => EngineInv'
<1> SUFFICES ASSUME EngineInv, OpFails PROVE EngineInv'
  OBVIOUS
<1>1. /\ at = "failed" /\ vs' = ErrorLeft /\ frames' = OpEnds(1, FALSE) /\ at' = "native"
      /\ bottom' = bottom
  BY DEF OpFails
<1>2. ~broken /\ bottom = cur.base
  BY <1>1, Script
<1>3. /\ exc.err \in Nat /\ exc.err > 0 /\ exc.val \in Int /\ exc.val < 0 /\ vs[Len(vs)] = exc.val
      /\ exc.t = "duk" /\ exc \in Exception /\ thrown \in Seq(Values)
      /\ (exc.as = "same" => exc.val = -exc.err) /\ (exc.as # "other" => TextOf(exc.val) = exc.err)
  BY <1>1, Facts DEF EngineInv, Errors, ErrorForwarded, Exception
<1>4. /\ entry \in Nat /\ cur.base <= entry /\ vs' \in Seq(Int) /\ Len(vs') = entry + 1
      /\ vs'[entry + 1] = exc.val /\ \A i \in 1..entry : vs'[i] = vs[i]
  BY <1>1, <1>3, ErrorLeftFacts
<1>5. cur.base \in Nat
  BY Facts, FrameFields
<1>6. /\ \A i \in 1..cur.base : vs'[i] = vs[i]
      /\ \A i \in entry + 1 .. entry + 1 : vs'[i] < 0
      /\ cur.base <= Len(vs') /\ Len(vs') > bottom
  BY <1>2, <1>3, <1>4, <1>5
<1>7. Placed' /\ isApp' = isApp
  BY <1>1, <1>2, <1>4, <1>6, OpDone
<1>8. PICK kind \in KindsOf(vs[Len(vs)]) :
        IF kind = "void" THEN ThrowsUnprotected
        ELSE /\ exc' = [exc EXCEPT !.t = "script", !.val = 0, !.what = TextOf(vs[Len(vs)]),
                                   !.traced = (kind = "error")]
             /\ UNCHANGED <<thrown, broken>>
  BY DEF OpFails
<1>9. CASE kind = "void"
  BY <1>1, <1>2, <1>7, <1>8, <1>9, Unprotected, Together
<1>10. CASE kind # "void"
  <2>1. /\ exc' = [exc EXCEPT !.t = "script", !.val = 0, !.what = TextOf(vs[Len(vs)]),
                              !.traced = (kind = "error")]
        /\ UNCHANGED <<thrown, broken>>
    BY <1>8, <1>10
  <2>2. TextOf(exc.val) \in Nat
    <3>1. \A n \in 1..Len(thrown) : thrown[n] \in Values
      BY <1>3, ElementOfSeq
    <3>2. \A n \in 1..Len(thrown) : thrown[n].text \in Nat
      BY <3>1 DEF Values
    <3> QED
      BY <3>2 DEF TextOf
  <2>3. /\ exc'.t = "script" /\ exc'.err = exc.err /\ exc' \in Exception /\ exc'.as = exc.as
        /\ exc'.what = TextOf(exc.val) /\ exc'.traced \in BOOLEAN
    <3>1. PICK w \in Nat : w = TextOf(exc.val)
      BY <2>2
    <3>2. PICK tr \in BOOLEAN : tr = (kind = "error")
      OBVIOUS
    <3>3. exc' = [exc EXCEPT !.t = "script", !.val = 0, !.what = w, !.traced = tr]
      BY <2>1, <3>1, <3>2, <1>3
    <3>4. exc \in Exception
      BY <1>3
    <3>5. /\ exc' \in Exception /\ exc'.t = "script" /\ exc'.err = exc.err /\ exc'.as = exc.as
          /\ exc'.what = w /\ exc'.traced = tr
      BY <3>3, <3>4, CaughtAs, ZenonT(40)
    <3> QED
      BY <3>1, <3>2, <3>5, Zenon
  <2>4. OnTop' = exc.val
    BY <1>1, <1>4, <1>6 DEF OnTop
  <2>6. TextOf(OnTop)' = TextOf(exc.val)
    BY <2>1, <2>4 DEF TextOf
  <2>7. Errors'
    BY <2>1, <2>3, <2>4, <2>6, <1>1, <1>2, <1>3 DEF Errors
  <2>8. ErrorForwarded'
    BY <2>3 DEF ErrorForwarded
  <2> QED
    BY <1>1, <1>7, <2>1, <2>3, <2>7, <2>8, Facts, Together
<1> QED
  BY <1>9, <1>10
-----------------------------------------------------------------------------
(* Exceptions that leave a native function *)

LEMMA LeavesInOrder ==
  ASSUME EngineInv, at = "native", ~isApp, exc.t \in {"script", "std", "duk"}
  PROVE  ~broken
BY DEF EngineInv, Errors

(* The proxy throws a value that is known by its number. *)
LEMMA ErrorsDuk ==
  ASSUME EngineInv, exc.err > 0, NEW v \in Int, v < 0, NEW a \in {"same", "copy", "other"},
         exc' = [exc EXCEPT !.t = "duk", !.val = v, !.what = 0, !.traced = FALSE, !.as = a],
         at' = "script", ~broken',
         a = "same" => v = -exc.err, a # "other" => TextOf(v)' = exc.err
  PROVE  Errors' /\ ErrorForwarded' /\ exc' \in Exception
<1>1. /\ exc' \in Exception /\ exc'.t = "duk" /\ exc'.err = exc.err /\ exc'.val = v
      /\ exc'.traced = FALSE /\ exc'.as = a
  BY Facts DEF Exception
<1>2. TextOf(exc.val)' = TextOf(v)'
  BY <1>1 DEF TextOf
<1>3. Errors' /\ ErrorForwarded'
  BY <1>1, <1>2 DEF Errors, ErrorForwarded
<1> QED
  BY <1>1, <1>3

(* The proxy throws a new Error, with the text of the exception. *)
LEMMA ErrorsText ==
  ASSUME EngineInv, ~broken', at' = "script", exc.t \in {"script", "std"}, ThrowText
  PROVE  Errors' /\ ErrorForwarded' /\ exc' \in Exception /\ thrown' \in Seq(Values)
<1>0. exc \in Exception /\ exc.err \in Nat /\ exc.what \in Nat /\ thrown \in Seq(Values) /\ Errors
      /\ exc.as \in {"same", "copy", "other"}
  BY Facts DEF EngineInv, Exception
<1>1. CASE exc.err = 0
  BY <1>1, ErrorsNew DEF ThrowText, Kinds
<1>2. CASE exc.err # 0
  <2> DEFINE a == IF exc.as = "other" THEN exc.as ELSE "copy"
  <2>1. /\ thrown' = Append(thrown, [kind |-> "error", text |-> exc.what])
        /\ exc' = [exc EXCEPT !.t = "duk", !.val = -next, !.what = 0, !.traced = FALSE, !.as = a]
    BY <1>2 DEF ThrowText
  <2>2. PICK v : v = -next
    OBVIOUS
  <2>5. v \in Int /\ v < 0 /\ thrown' \in Seq(Values) /\ TextOf(v)' = exc.what
    <3>1. "error" \in Kinds
      BY DEF Kinds
    <3> QED
      BY <1>0, <2>1, <2>2, <3>1, NewValue
  <2>3. exc.err > 0 /\ exc.t = "script"
    BY <1>0, <1>2 DEF Errors
  <2>4. a \in {"same", "copy", "other"} /\ a # "same" /\ (a # "other" => exc.as # "other")
    BY <1>0
  <2> HIDE DEF a
  <2>6. a # "other" => exc.what = exc.err
    BY <1>0, <2>3, <2>4 DEF Errors
  <2>7. exc' = [exc EXCEPT !.t = "duk", !.val = v, !.what = 0, !.traced = FALSE, !.as = a]
    BY <2>1, <2>2
  <2>8. Errors' /\ ErrorForwarded' /\ exc' \in Exception
    BY <2>3, <2>4, <2>5, <2>6, <2>7, ErrorsDuk
  <2> QED
    BY <2>5, <2>8
<1> QED
  BY <1>1, <1>2

LEMMA ThrowTextKeeps ==
  ASSUME EngineInv, at = "native", ~isApp, exc.t \in {"script", "std"}, BackToScript,
         ThrowText, UNCHANGED broken
  PROVE  EngineInv'
<1>1. ~broken /\ at' = "script"
  BY LeavesInOrder DEF BackToScript
<1>2. Placed'
  BY <1>1, Return
<1>3. Errors' /\ ErrorForwarded' /\ exc' \in Exception /\ thrown' \in Seq(Values)
  BY <1>1, ErrorsText
<1> QED
  BY <1>1, <1>2, <1>3, Facts, Together

(* The proxy throws the value on top of the stack. *)
LEMMA ErrorsRethrow ==
  ASSUME EngineInv, exc.traced, ~broken', at' = "script", Rethrow
  PROVE  Errors' /\ ErrorForwarded' /\ exc' \in Exception /\ thrown' \in Seq(Values)
<1>0. /\ exc \in Exception /\ exc.as \in {"same", "copy", "other"} /\ thrown \in Seq(Values)
      /\ exc.err > 0 /\ vs \in Seq(Int) /\ Len(vs) \in Nat /\ bottom \in Nat
      /\ (exc.as # "other" => OnTop < 0 /\ TextOf(OnTop) = exc.err)
      /\ (exc.as = "same" => OnTop = -exc.err)
  BY Facts DEF EngineInv, Errors, Exception
<1>1. OnTop \in Int
  BY <1>0, ElementOfSeq DEF OnTop, tmp
<1>2. \A v : [exc EXCEPT !.t = "duk", !.val = v, !.what = 0, !.traced = FALSE]
           = [exc EXCEPT !.t = "duk", !.val = v, !.what = 0, !.traced = FALSE, !.as = exc.as]
  BY <1>0 DEF Exception
<1>3. CASE OnTop < 0
  <2>1. exc' = [exc EXCEPT !.t = "duk", !.val = OnTop, !.what = 0, !.traced = FALSE] /\ thrown' = thrown
    BY <1>1, <1>3 DEF Rethrow
  <2>2. PICK v \in Int : v = OnTop
    BY <1>1
  <2>3. TextOf(v)' = TextOf(OnTop)
    BY <2>1, <2>2 DEF TextOf
  <2>4. exc' = [exc EXCEPT !.t = "duk", !.val = v, !.what = 0, !.traced = FALSE, !.as = exc.as]
    BY <1>2, <2>1, <2>2
  <2>5. v < 0 /\ (exc.as = "same" => v = -exc.err) /\ (exc.as # "other" => TextOf(v)' = exc.err)
    BY <1>0, <1>3, <2>2, <2>3
  <2>6. Errors' /\ ErrorForwarded' /\ exc' \in Exception
    BY <1>0, <2>4, <2>5, ErrorsDuk
  <2> QED
    BY <1>0, <2>1, <2>6
<1>4. CASE ~(OnTop < 0)
  <2>1. /\ exc' = [exc EXCEPT !.t = "duk", !.val = -next, !.what = 0, !.traced = FALSE]
        /\ \E kind \in Kinds : thrown' = Append(thrown, [kind |-> kind, text |-> next])
    BY <1>4 DEF Rethrow
  <2>4. PICK v : v = -next
    OBVIOUS
  <2>2. v \in Int /\ v < 0 /\ thrown' \in Seq(Values)
    <3>1. next \in Nat
      BY <1>0 DEF next
    <3>2. PICK kind \in Kinds, n \in Nat : thrown' = Append(thrown, [kind |-> kind, text |-> n])
      BY <2>1, <3>1
    <3> QED
      BY <1>0, <2>4, <3>2, NewValue
  <2>3. exc.as = "other"
    BY <1>0, <1>4
  <2>5. exc' = [exc EXCEPT !.t = "duk", !.val = v, !.what = 0, !.traced = FALSE, !.as = exc.as]
    BY <1>2, <2>1, <2>4
  <2>6. Errors' /\ ErrorForwarded' /\ exc' \in Exception
    BY <1>0, <2>2, <2>3, <2>4, <2>5, ErrorsDuk
  <2> QED
    BY <2>2, <2>6
<1> QED
  BY <1>3, <1>4

LEMMA FunctionThrowsKeeps == EngineInv /\ FunctionThrows => EngineInv'
<1> SUFFICES ASSUME EngineInv, FunctionThrows PROVE EngineInv'
  OBVIOUS
<1>1. at = "native" /\ ~isApp /\ exc.t \in {"script", "std"} /\ BackToScript /\ UNCHANGED broken
  BY AppFrame DEF FunctionThrows, Leaving
<1>2. CASE exc.traced
  <2>1. Rethrow
    BY <1>2 DEF FunctionThrows
  <2>2. ~broken /\ at' = "script"
    BY <1>1, LeavesInOrder DEF BackToScript
  <2>3. Placed'
    BY <1>1, <2>2, Return
  <2>4. Errors' /\ ErrorForwarded' /\ exc' \in Exception /\ thrown' \in Seq(Values)
    BY <1>1, <1>2, <2>1, <2>2, ErrorsRethrow
  <2> QED
    BY <1>1, <2>2, <2>3, <2>4, Facts, Together
<1>3. CASE ~exc.traced
  BY <1>1, <1>3, ThrowTextKeeps DEF FunctionThrows
<1> QED
  BY <1>2, <1>3

LEMMA MethodThrowsKeeps == EngineInv /\ MethodThrows => EngineInv'
BY AppFrame, ThrowTextKeeps DEF MethodThrows, Leaving

LEMMA ConstructorThrowsKeeps == EngineInv /\ ConstructorThrows => EngineInv'
<1> SUFFICES ASSUME EngineInv, ConstructorThrows PROVE EngineInv'
  OBVIOUS
<1>1. at = "native" /\ ~isApp /\ exc.t \in {"script", "std"} /\ UNCHANGED broken
  BY AppFrame DEF ConstructorThrows, Leaving
<1>2. CASE exc.t = "script"
  BY <1>1, <1>2, ThrowTextKeeps DEF ConstructorThrows
<1>3. CASE exc.t # "script"
  <2>1. exc' = Thrown("engine") /\ UNCHANGED <<vs, bottom, frames, at, thrown>>
    BY <1>3 DEF ConstructorThrows
  <2>2. ~broken
    BY <1>1, LeavesInOrder
  <2>3. Placed'
    BY <1>1, <2>1, Still
  <2>4. Errors' /\ ErrorForwarded' /\ exc' \in Exception
    BY <1>1, <2>1, <2>2, ErrorsThrown
  <2> QED
    BY <1>1, <2>1, <2>3, <2>4, Facts, Together
<1> QED
  BY <1>2, <1>3

LEMMA DukPassesKeeps == EngineInv /\ DukPasses => EngineInv'
<1> SUFFICES ASSUME EngineInv, DukPasses PROVE EngineInv'
  OBVIOUS
<1>1. /\ at = "native" /\ exc.t = "duk" /\ BackToScript /\ UNCHANGED <<exc, thrown, broken>>
      /\ at' = "script"
  BY DEF DukPasses, BackToScript
<1>2. ~isApp /\ ~broken
  BY <1>1 DEF EngineInv, Errors
<1>3. Placed'
  BY <1>1, <1>2, Return
<1>4. exc \in Exception /\ Errors /\ ErrorForwarded
  BY Facts DEF EngineInv
<1>5. ErrorForwarded'
  BY <1>1, <1>4 DEF ErrorForwarded, TextOf
<1>6. Errors'
  BY <1>1, <1>2, <1>4 DEF Errors
<1> QED
  BY <1>1, <1>3, <1>5, <1>6, Facts, Together

LEMMA FatalPassesKeeps == EngineInv /\ FatalPasses => EngineInv'
<1> SUFFICES ASSUME EngineInv, FatalPasses PROVE EngineInv'
  OBVIOUS
<1>1. /\ at = "native" /\ ~isApp /\ exc.t \in {"engine", "exit"} /\ broken' = TRUE
      /\ frames' = SubSeq(frames, 1, depth - 1) /\ UNCHANGED <<bottom, at, exc, thrown>>
      /\ (vs' = vs \/ vs' = Keep(bottom))
  BY DEF FatalPasses
<1>2. /\ vs \in Seq(Int) /\ Len(vs) \in Nat /\ bottom \in 0..Len(vs) /\ frames \in Seq(Frame)
      /\ depth = Len(frames) /\ depth \in Nat /\ depth > 1
  BY <1>1, Facts DEF isApp
<1>3. vs' \in Seq(Int) /\ bottom <= Len(vs')
  BY <1>1, <1>2, KeepFacts
<1>4. /\ frames' \in Seq(Frame) /\ Len(frames') = depth - 1
      /\ \A j \in 1..depth - 1 : frames'[j] = frames[j]
  <2>1. depth - 1 \in 0..Len(frames)
    BY <1>2
  <2> QED
    BY <2>1, <1>1, <1>2, First
<1>5. depth' = depth - 1 /\ Len(frames') > 0
  BY <1>2, <1>4 DEF depth
<1>6. \A j \in 1..depth' : frames'[j].k = "app" <=> j = 1
  BY <1>2, <1>4, <1>5 DEF EngineInv
<1>7. Placed'
  BY <1>1, <1>2, <1>3, <1>4, <1>5, <1>6 DEF Placed, Unwound
<1>8. Errors' /\ ErrorForwarded'
  BY <1>1 DEF EngineInv, Errors, ErrorForwarded
<1> QED
  BY <1>1, <1>7, <1>8, Facts, Together
-----------------------------------------------------------------------------
LEMMA Initial == Init => EngineInv
<1> SUFFICES ASSUME Init PROVE EngineInv
  OBVIOUS
<1> DEFINE f == NewFrame("app", 0, 0)
<1>1. /\ at = "native" /\ exc = NoExc /\ vs = <<>> /\ bottom = 0 /\ thrown = <<>>
      /\ broken = FALSE /\ frames = <<f>>
  BY DEF Init
<1>2. f \in Frame /\ f.base = 0 /\ f.own = 0 /\ f.lost = FALSE /\ f.k = "app"
  BY AppAlone
<1> HIDE DEF f
<1>3. frames \in Seq(Frame) /\ Len(frames) = 1 /\ frames[1] = f
  BY <1>1, <1>2
<1>4. depth = 1 /\ cur = f /\ isApp
  BY <1>3 DEF depth, cur, isApp
<1>5. vs \in Seq(Int) /\ Len(vs) = 0 /\ thrown \in Seq(Values)
  BY <1>1
<1>6. Layout /\ Unwound
  BY <1>1, <1>2, <1>3, <1>4, <1>5 DEF Layout, InPlace, Filled, Unwound
<1>7. Errors /\ ErrorForwarded
  BY <1>1, <1>4, NoExcFacts DEF Errors, ErrorForwarded
<1>8. TypeOK
  <2>1. bottom \in Nat /\ Len(frames) > 0
    BY <1>1, <1>3
  <2>3. exc \in Exception /\ broken \in BOOLEAN
    BY <1>1, NoExcFacts, Zenon
  <2>2. at \in {"native", "script", "failed", "over"}
    BY <1>1
  <2> QED
    BY <1>3, <1>5, <2>1, <2>2, <2>3, Zenon DEF TypeOK
<1> QED
  BY <1>1, <1>2, <1>3, <1>4, <1>5, <1>6, <1>7, <1>8 DEF EngineInv

LEMMA Unchanged == EngineInv /\ UNCHANGED vars => EngineInv'
<1> SUFFICES ASSUME EngineInv, UNCHANGED vars PROVE EngineInv'
  OBVIOUS
<1>1. UNCHANGED <<vs, bottom, frames, at, exc, thrown, broken>>
  BY DEF vars
<1>2. Placed' /\ isApp' = isApp
  BY <1>1, Still
<1>3. ErrorForwarded'
  BY <1>1 DEF EngineInv, ErrorForwarded, TextOf
<1>4. Errors'
  <2>1. OnTop' = OnTop /\ TextOf(OnTop)' = TextOf(OnTop)
    BY <1>1 DEF OnTop, TextOf
  <2> QED
    BY <1>1, <1>2, <2>1 DEF EngineInv, Errors
<1> QED
  BY <1>1, <1>2, <1>3, <1>4, Facts, Together DEF EngineInv, TypeOK

LEMMA Inductive == EngineInv /\ [Next]_vars => EngineInv'
<1> SUFFICES ASSUME EngineInv, [Next]_vars PROVE EngineInv'
  OBVIOUS
<1>1. CASE UNCHANGED vars
  BY <1>1, Unchanged
<1>2. CASE Push \/ Pop \/ Clear \/ CallUndefined \/ NativeReturns \/ NativeCatches
  BY <1>2, PushKeeps, PopKeeps, ClearKeeps, CallUndefinedKeeps, NativeReturnsKeeps, NativeCatchesKeeps
<1>3. CASE \E op \in {"eval", "call", "raw"} : RunScript(op)
  BY <1>3, RunScriptKeeps
<1>4. CASE \E type \in {"script", "std", "engine", "exit"} : NativeThrows(type)
  BY <1>4, NativeThrowsKeeps
<1>5. CASE \E kind \in {"function", "method", "constructor"}, args \in 0..MaxOwn : CallNative(kind, args)
  BY <1>5, CallNativeKeeps
<1>6. CASE \E kind \in Kinds : ScriptThrows(kind)
  BY <1>6, ScriptThrowsKeeps
<1>7. CASE ScriptCatches \/ ScriptReturns \/ WrongType \/ ConversionThrows \/ ScriptFails \/ OpFails
  BY <1>7, ScriptCatchesKeeps, ScriptReturnsKeeps, WrongTypeKeeps, ConversionThrowsKeeps,
     ScriptFailsKeeps, OpFailsKeeps
<1>8. CASE FunctionThrows \/ MethodThrows \/ ConstructorThrows \/ DukPasses \/ FatalPasses
  BY <1>8, FunctionThrowsKeeps, MethodThrowsKeeps, ConstructorThrowsKeeps, DukPassesKeeps,
     FatalPassesKeeps
<1> QED
  BY <1>1, <1>2, <1>3, <1>4, <1>5, <1>6, <1>7, <1>8 DEF Next

(* The inductive invariant holds in every state that can be reached. *)
THEOREM EngineInvariant == Spec => []EngineInv
BY Initial, Inductive, PTL DEF Spec

(* The variables keep their types. *)
THEOREM EngineTypeCorrect == Spec => []TypeOK
<1>1. EngineInv => TypeOK
  BY DEF EngineInv
<1> QED
  BY <1>1, EngineInvariant, PTL

(* Duktape works in the frame of the code that runs, unless engine_error   *)
(* or exit_exception has passed it: the proxies of native functions let no *)
(* other C++ exception through.                                            *)
THEOREM DuktapeUnwound == Spec => []Unwound
<1>1. EngineInv => Unwound
  BY DEF EngineInv
<1> QED
  BY <1>1, EngineInvariant, PTL

(* A native function finds its values where it left them after scripts it  *)
(* ran with eval() or call() have returned or failed, at any depth.        *)
THEOREM ValuesOfCallerKept == Spec => []CallerKept
<1>1. EngineInv => CallerKept
  <2> SUFFICES ASSUME EngineInv, ~broken, NEW j \in 1..depth, ~frames[j].lost
               PROVE  /\ InPlace(frames[j])
                      /\ (j < depth \/ at \in {"script", "failed"}) => frames[j].initial_top = frames[j].own
                      /\ j = depth /\ at = "native" => Len(vs) = frames[j].base + frames[j].own
    BY DEF CallerKept, InPlace
  <2>1. Layout /\ depth \in Nat /\ cur = frames[depth]
    BY Facts DEF EngineInv
  <2>2. InPlace(frames[j])
    BY <2>1 DEF Layout
  <2>3. j < depth => frames[j].initial_top = frames[j].own
    <3>1. j < depth => j \in 1..depth - 1
      BY <2>1
    <3> QED
      BY <3>1, <2>1 DEF Layout, Outer
  <2>4. j = depth /\ at \in {"script", "failed"} => frames[j].initial_top = frames[j].own
    BY <2>1 DEF Layout, Filled, Outer
  <2>5. j = depth /\ at = "native" => Len(vs) = frames[j].base + frames[j].own
    BY <2>1 DEF Layout, Filled
  <2>6. j < depth \/ j = depth
    BY <2>1
  <2> QED
    BY <2>2, <2>3, <2>4, <2>5, <2>6
<1> QED
  BY <1>1, EngineInvariant, PTL

(* The outermost script gets the value that the innermost one threw: as    *)
(* the same value through function_proxy, as a new Error with its text     *)
(* through methods, constructors and without a call stack; excepted are    *)
(* native functions that change their stack while a script_error passes.   *)
THEOREM ErrorOrTextForwarded == Spec => []ErrorForwarded
<1>1. EngineInv => ErrorForwarded
  BY DEF EngineInv
<1> QED
  BY <1>1, EngineInvariant, PTL

(* An exit_exception is stopped by nobody but the application. *)
THEOREM ExitAlwaysReaches == Spec => ExitReaches
<1>1. EngineInv /\ [Next]_vars => [exc.t = "exit" => exc'.t = "exit" \/ isApp]_vars
  <2> SUFFICES ASSUME EngineInv, Next, exc.t = "exit", ~isApp PROVE exc'.t = "exit"
    BY DEF vars
  <2>1. at = "native" /\ exc # NoExc
    BY NoExcFacts DEF EngineInv, Errors
  <2>2. FatalPasses
    BY <2>1 DEF Next, Push, Pop, Clear, CallUndefined, NativeReturns, NativeCatches, RunScript,
       NativeThrows, CallNative, ScriptThrows, ScriptCatches, ScriptReturns, WrongType,
       ConversionThrows, ScriptFails, OpFails, FunctionThrows, MethodThrows, ConstructorThrows,
       DukPasses, Leaving, InControl, MayChange
  <2> QED
    BY <2>2 DEF FatalPasses
<1> QED
  BY <1>1, EngineInvariant, PTL DEF Spec, ExitReaches
=============================================================================
