--------------------------- MODULE Context_proofs ---------------------------
(***************************************************************************)
(* What holds of the extraction context for every program graph, nesting   *)
(* limit and pattern of exceptions.  The actions change the call stack in  *)
(* few ways: the top frame moves on, a frame is pushed, the top frame      *)
(* leaves, a queued action starts on an empty stack.  One lemma for each   *)
(* shows that FramesInv is kept; the actions are then instances.           *)
(*                                                                         *)
(* The second half counts.  An entity in the cache has been defined and    *)
(* populated, or a frame or a queued action will do it: PlacesInv says     *)
(* where, the lemmas Totals... that a step moves the count from one of     *)
(* them to the next, and AtLeastOnce, AtMostOnce and AtHome follow.        *)
(***************************************************************************)
EXTENDS Context, FiniteSetTheorems, FunctionTheorems, SequenceTheorems, TLAPS

-----------------------------------------------------------------------------
(* Sequences.                                                              *)

\* The last element of a sequence, and the sequence without it.
LEMMA LastFront ==
  ASSUME NEW S, NEW s \in Seq(S), s # <<>>
  PROVE  /\ Len(s) \in Nat /\ Len(s) >= 1 /\ DOMAIN s = 1 .. Len(s)
         /\ Last(s) \in S /\ Last(s) = s[Len(s)]
         /\ Front(s) \in Seq(S) /\ Len(Front(s)) = Len(s) - 1
         /\ DOMAIN Front(s) = 1 .. Len(s) - 1
         /\ \A i \in 1 .. Len(s) - 1 : Front(s)[i] = s[i]
<1>1. /\ Len(s) \in Nat /\ Len(s) >= 1 /\ DOMAIN s = 1 .. Len(s)
      /\ Last(s) \in S /\ Last(s) = s[Len(s)]
  BY DEF Last
<1>2. \A i \in 1 .. Len(s) - 1 : s[i] \in S
  BY <1>1
<1>3. /\ Front(s) \in Seq(S) /\ Len(Front(s)) = Len(s) - 1
      /\ \A i \in 1 .. Len(s) - 1 : Front(s)[i] = s[i]
  BY <1>1, <1>2, SubSeqProperties DEF Front
<1>. QED
  BY <1>1, <1>3

\* Replacing the last element leaves the others alone.
LEMMA ReplaceLast ==
  ASSUME NEW S, NEW s \in Seq(S), s # <<>>, NEW f \in S
  PROVE  /\ WithTop(s, f) \in Seq(S) /\ WithTop(s, f) # <<>>
         /\ Len(WithTop(s, f)) = Len(s) /\ DOMAIN WithTop(s, f) = 1 .. Len(s)
         /\ \A i \in 1 .. Len(s) - 1 : WithTop(s, f)[i] = s[i]
         /\ WithTop(s, f)[Len(s)] = f
BY DEF WithTop

\* An appended element is the last one.
LEMMA AppendLast ==
  ASSUME NEW S, NEW s \in Seq(S), NEW f \in S
  PROVE  /\ Append(s, f) \in Seq(S) /\ Len(Append(s, f)) = Len(s) + 1
         /\ DOMAIN Append(s, f) = 1 .. Len(s) + 1
         /\ \A i \in 1 .. Len(s) : Append(s, f)[i] = s[i]
         /\ Append(s, f)[Len(s) + 1] = f
OBVIOUS
-----------------------------------------------------------------------------
(* Frames.                                                                 *)

\* What the fields of a frame may be.
LEMMA FrameFields ==
  ASSUME NEW f \in Frame
  PROVE  /\ f.at \in Where /\ f.of \in Entity \cup {NoEntity} /\ f.label \in Nat
         /\ f.left \in SUBSET Entity
         /\ f.defers \in BOOLEAN /\ f.scoped \in BOOLEAN /\ f.keyed \in BOOLEAN
BY DEF Frame

\* The set of frames that hold a StackGuard is finite.
LEMMA ScopesFinite ==
  ASSUME frames \in Seq(Frame)
  PROVE  IsFiniteSet(Scopes)
<1>1. DOMAIN frames = 1 .. Len(frames) /\ Len(frames) \in Nat
  OBVIOUS
<1>2. IsFiniteSet(1 .. Len(frames))
  BY <1>1, FS_Interval
<1>. QED
  BY <1>1, <1>2, FS_Subset DEF Scopes

\* The nesting depth is not negative.
LEMMA DepthIsNat ==
  ASSUME frames \in Seq(Frame), DepthCountsScopes
  PROVE  depth \in Nat /\ (frames # <<>> /\ Top.scoped => depth >= 1)
<1>1. IsFiniteSet(Scopes)
  BY ScopesFinite
<1>2. depth \in Nat /\ (depth = 0 => Scopes = {})
  BY <1>1, FS_CardinalityType, FS_EmptySet DEF DepthCountsScopes
<1>3. ASSUME frames # <<>>, Top.scoped PROVE Len(frames) \in Scopes
  <2>1. /\ Len(frames) \in Nat /\ Len(frames) >= 1 /\ DOMAIN frames = 1 .. Len(frames)
        /\ Top = frames[Len(frames)]
    BY <1>3, LastFront DEF Top
  <2>2. frames[Len(frames)].scoped
    BY <1>3, <2>1
  <2>. QED
    BY <2>1, <2>2 DEF Scopes
<1>. QED
  BY <1>2, <1>3

-----------------------------------------------------------------------------
(* The ways in which the stack changes.                                    *)

\* The facts about a stack whose top frame is replaced.
LEMMA TopReplaced ==
  ASSUME frames \in Seq(Frame), frames # <<>>, NEW f \in Frame, frames' = WithTop(frames, f)
  PROVE  /\ Len(frames) \in Nat /\ Len(frames) >= 1 /\ DOMAIN frames = 1 .. Len(frames)
         /\ Top = frames[Len(frames)] /\ Top \in Frame
         /\ DOMAIN frames' = 1 .. Len(frames)
         /\ \A i \in 1 .. Len(frames) - 1 : frames'[i] = frames[i]
         /\ frames'[Len(frames)] = f
<1>. DEFINE n == Len(frames)
<1>1. /\ n \in Nat /\ n >= 1 /\ DOMAIN frames = 1 .. n /\ Top = frames[n] /\ Top \in Frame
  BY LastFront DEF Top
<1>2. /\ DOMAIN frames' = 1 .. n
      /\ \A i \in 1 .. n - 1 : frames'[i] = frames[i]
      /\ frames'[n] = f
  <2>1. /\ DOMAIN WithTop(frames, f) = 1 .. n
        /\ \A i \in 1 .. n - 1 : WithTop(frames, f)[i] = frames[i]
        /\ WithTop(frames, f)[n] = f
    BY DEF WithTop
  <2>. QED
    BY <2>1
<1>. QED
  BY <1>1, <1>2

\* The top frame moves to another place, or stays where it is: all but LabelOnTop.
LEMMA TopMoves ==
  ASSUME frames \in Seq(Frame), FramesInv, frames # <<>>,
         NEW f \in Frame, frames' = WithTop(frames, f),
         f.of = Top.of, f.scoped = Top.scoped, f.keyed = Top.keyed,
         UNCHANGED <<phase, tagStack, depth>>,
         \/ f.at = Top.at
         \/ /\ f.at \notin {"member", "comments"}
            /\ f.at # "report" => f.of \in Entity
            /\ ~IsHandler(f)
            /\ f.at = "location" => Behaviour[f.of] = "PushesLabel" /\ tagStack = <<>>
            /\ f.at = "complain" => Behaviour[f.of] = "NeedsLabel"
  PROVE  FramesOfEntities' /\ DepthCountsScopes' /\ OneGuard' /\ HandlerAtBottom'
<1>. DEFINE n == Len(frames)
<1>1. /\ n \in Nat /\ n >= 1 /\ DOMAIN frames = 1 .. n /\ Top = frames[n] /\ Top \in Frame
  BY TopReplaced
<1>2. /\ DOMAIN frames' = 1 .. n
      /\ \A i \in 1 .. n - 1 : frames'[i] = frames[i]
      /\ frames'[n] = f
  BY TopReplaced
<1>3. FramesOfEntities'
  BY <1>1, <1>2 DEF FramesInv, FramesOfEntities
<1>4. Scopes' = Scopes
  <2>1. ASSUME NEW i \in 1 .. n PROVE frames'[i].scoped = frames[i].scoped
    BY <1>1, <1>2
  <2>. QED
    BY <2>1, <1>1, <1>2 DEF Scopes
<1>5. DepthCountsScopes'
  BY <1>4 DEF FramesInv, DepthCountsScopes
<1>6. OneGuard'
  <2>1. ASSUME NEW i \in 1 .. n PROVE frames'[i].keyed = frames[i].keyed /\ frames'[i].of = frames[i].of
    BY <1>1, <1>2
  <2>2. ASSUME NEW i \in 1 .. n, frames'[i].at = "location"
        PROVE  /\ Behaviour[frames[i].of] = "PushesLabel"
               /\ \A j \in 1 .. n : j <= i => ~frames[j].keyed
    <3>1. CASE i = n /\ f.at # Top.at
      BY <3>1, <2>2, <1>1, <1>2 DEF FramesInv, OneGuard
    <3>2. CASE i = n /\ f.at = Top.at
      BY <3>2, <2>2, <1>1, <1>2 DEF FramesInv, OneGuard
    <3>3. CASE i # n
      <4>1. n \in Nat /\ i \in 1 .. n
        BY <1>1
      <4>2. frames'[i] = frames[i]
        BY <3>3, <4>1, <1>2
      <4>. QED
        BY <4>2, <2>2, <1>1 DEF FramesInv, OneGuard
    <3>. QED
      BY <3>1, <3>2, <3>3
  <2>3. ASSUME NEW i \in 1 .. n, frames'[i].at = "complain"
        PROVE  Behaviour[frames[i].of] = "NeedsLabel"
    BY <2>3, <1>1, <1>2 DEF FramesInv, OneGuard
  <2>4. (\E i \in 1 .. n : frames[i].keyed) => \E i \in 1 .. n : frames'[i].keyed
    BY <2>1
  <2>5. \A i \in 1 .. n : frames'[i].at = "location" =>
          /\ Behaviour[frames'[i].of] = "PushesLabel"
          /\ \A j \in 1 .. n : j <= i => ~frames'[j].keyed
    BY <2>1, <2>2
  <2>6. \A i \in 1 .. n : frames'[i].at = "complain" => Behaviour[frames'[i].of] = "NeedsLabel"
    BY <2>1, <2>3
  <2>7. tagStack' = tagStack
    OBVIOUS
  <2>8. /\ Len(tagStack) <= 1
        /\ \A i \in 1 .. n : frames'[i].keyed => tagStack # <<>>
        /\ tagStack # <<>> => \E i \in 1 .. n : frames'[i].keyed
        /\ \A i, j \in 1 .. n : frames'[i].keyed /\ frames'[j].keyed => i = j
    BY <2>1, <2>4, <1>1 DEF FramesInv, OneGuard
  <2>. QED
    BY <2>5, <2>6, <2>7, <2>8, <1>2 DEF OneGuard
<1>7. HandlerAtBottom'
  BY <1>1, <1>2 DEF FramesInv, HandlerAtBottom, IsHandler
<1>. QED
  BY <1>3, <1>5, <1>6, <1>7

\* The top frame moves on to a place that is no id, or stays where it is.
LEMMA TopMovesOn ==
  ASSUME frames \in Seq(Frame), FramesInv, frames # <<>>,
         NEW f \in Frame, frames' = WithTop(frames, f),
         f.of = Top.of, f.scoped = Top.scoped, f.keyed = Top.keyed,
         UNCHANGED <<phase, writingLabel, tagStack, depth>>,
         \/ f.at = Top.at
         \/ /\ Top.at # "id" /\ f.at \notin {"id", "member", "comments"}
            /\ f.at \in {"new", "cached", "defined"} \/ ~writingLabel
            /\ f.at # "report" => f.of \in Entity
            /\ ~IsHandler(f)
            /\ f.at = "location" => Behaviour[f.of] = "PushesLabel" /\ tagStack = <<>>
            /\ f.at = "complain" => Behaviour[f.of] = "NeedsLabel"
  PROVE  FramesInv'
<1>. DEFINE n == Len(frames)
<1>1. /\ n \in Nat /\ n >= 1 /\ DOMAIN frames = 1 .. n /\ Top = frames[n] /\ Top \in Frame
  BY TopReplaced
<1>2. /\ DOMAIN frames' = 1 .. n
      /\ \A i \in 1 .. n - 1 : frames'[i] = frames[i]
      /\ frames'[n] = f
  BY TopReplaced
<1>3. FramesOfEntities' /\ DepthCountsScopes' /\ OneGuard' /\ HandlerAtBottom'
  BY TopMoves
<1>4. LabelOnTop'
  <2>1. ASSUME NEW i \in 1 .. n, frames'[i].at = "id" PROVE frames[i].at = "id"
    BY <2>1, <1>1, <1>2
  <2>2. ASSUME NEW i \in 1 .. n, frames'[i].at = "id", NEW j \in 1 .. n, j > i
        PROVE  frames'[j].at \in {"new", "cached", "defined"} /\ ~frames'[j].keyed
    BY <2>1, <2>2, <1>1, <1>2 DEF FramesInv, LabelOnTop
  <2>3. InLabel => InLabel'
    BY <1>1, <1>2 DEF InLabel
  <2>. QED
    BY <2>1, <2>2, <2>3, <1>1, <1>2 DEF FramesInv, LabelOnTop
<1>. QED
  BY <1>3, <1>4 DEF FramesInv

\* Where populations run no label is being written.
LEMMA NotInLabel ==
  ASSUME frames \in Seq(Frame), FramesInv, frames # <<>>,
         Top.at \notin {"id", "new", "cached", "defined"}
  PROVE  ~writingLabel
<1>. DEFINE n == Len(frames)
<1>1. /\ n \in Nat /\ n >= 1 /\ DOMAIN frames = 1 .. n /\ Top = frames[n]
  BY LastFront DEF Top
<1>2. SUFFICES ASSUME writingLabel PROVE FALSE
  OBVIOUS
<1>3. PICK i \in 1 .. n : frames[i].at = "id"
  BY <1>1, <1>2 DEF FramesInv, LabelOnTop, InLabel
<1>4. \A j \in 1 .. n : j > i => frames[j].at \in {"new", "cached", "defined"} /\ ~frames[j].keyed
  BY <1>1, <1>3 DEF FramesInv, LabelOnTop
<1>5. n \in 1 .. n /\ n > i
  BY <1>1, <1>3
<1>. QED
  BY <1>1, <1>4, <1>5

\* The top frame starts to write its label, or ends it.
LEMMA TopWrites ==
  ASSUME frames \in Seq(Frame), FramesInv, frames # <<>>,
         NEW f \in Frame, frames' = WithTop(frames, f),
         f.of = Top.of, f.scoped = Top.scoped, f.keyed = Top.keyed, f.of \in Entity,
         UNCHANGED <<phase, tagStack, depth>>,
         \/ f.at = "id" /\ ~writingLabel /\ writingLabel' = TRUE
         \/ f.at = "defined" /\ Top.at = "id" /\ writingLabel' = FALSE
  PROVE  FramesInv'
<1>. DEFINE n == Len(frames)
<1>1. /\ n \in Nat /\ n >= 1 /\ DOMAIN frames = 1 .. n /\ Top = frames[n] /\ Top \in Frame
  BY TopReplaced
<1>2. /\ DOMAIN frames' = 1 .. n
      /\ \A i \in 1 .. n - 1 : frames'[i] = frames[i]
      /\ frames'[n] = f
  BY TopReplaced
<1>3. FramesOfEntities' /\ DepthCountsScopes' /\ OneGuard' /\ HandlerAtBottom'
  BY TopMoves DEF IsHandler
<1>4. \A i \in 1 .. n - 1 : frames'[i].at # "id"
  <2>1. CASE ~writingLabel
    BY <2>1, <1>1, <1>2 DEF FramesInv, LabelOnTop
  <2>2. CASE Top.at = "id"
    <3>1. ASSUME NEW i \in 1 .. n - 1, frames[i].at = "id" PROVE FALSE
      <4>1. n \in Nat /\ i \in 1 .. n /\ n \in 1 .. n /\ n > i
        BY <1>1
      <4>2. frames[n].at \in {"new", "cached", "defined"} /\ ~frames[n].keyed
        BY <3>1, <4>1, <1>1 DEF FramesInv, LabelOnTop
      <4>. QED
        BY <4>2, <2>2, <1>1
    <3>. QED
      BY <3>1, <1>2
  <2>. QED
    BY <2>1, <2>2
<1>5. LabelOnTop'
  <2>1. \A i \in 1 .. n : frames'[i].at = "id" => i = n /\ f.at = "id"
    <3>1. ASSUME NEW i \in 1 .. n, frames'[i].at = "id" PROVE i = n
      <4>1. n \in Nat /\ i \in 1 .. n
        BY <1>1
      <4>2. i = n \/ i \in 1 .. n - 1
        BY <4>1
      <4>. QED
        BY <4>2, <3>1, <1>4
    <3>. QED
      BY <3>1, <1>2
  <2>2. \A i \in 1 .. n : frames'[i].at = "id" =>
          /\ writingLabel'
          /\ \A j \in 1 .. n : j > i => frames'[j].at \in {"new", "cached", "defined"} /\ ~frames'[j].keyed
    <3>1. n \in Nat /\ \A j \in 1 .. n : ~(j > n)
      BY <1>1
    <3>2. f.at = "id" => writingLabel'
      OBVIOUS
    <3>. QED
      BY <2>1, <3>1, <3>2
  <2>3. writingLabel' => n \in 1 .. n /\ frames'[n].at = "id"
    BY <1>1, <1>2
  <2>. QED
    BY <2>2, <2>3, <1>2 DEF LabelOnTop, InLabel
<1>. QED
  BY <1>3, <1>5 DEF FramesInv

\* A frame with a StackGuard is pushed for a constructor; h is the frame below.
LEMMA FrameIsPushed ==
  ASSUME frames \in Seq(Frame), FramesInv, frames # <<>>,
         NEW f \in Frame, NEW h \in Frame, frames' = Append(WithTop(frames, h), f),
         h.at = Top.at, h.of = Top.of, h.scoped = Top.scoped, h.keyed = Top.keyed,
         f.at = "new", f.of \in Entity, f.scoped = TRUE, f.keyed = FALSE,
         depth' = depth + 1, UNCHANGED <<phase, writingLabel, tagStack>>
  PROVE  FramesInv' /\ frames' \in Seq(Frame)
<1>. DEFINE n == Len(frames)
<1>1. /\ n \in Nat /\ n >= 1 /\ DOMAIN frames = 1 .. n /\ Top = frames[n] /\ Top \in Frame
  BY LastFront DEF Top
<1>2. /\ DOMAIN frames' = 1 .. n + 1 /\ frames' \in Seq(Frame)
      /\ \A i \in 1 .. n : /\ frames'[i].at = frames[i].at /\ frames'[i].of = frames[i].of
                           /\ frames'[i].scoped = frames[i].scoped
                           /\ frames'[i].keyed = frames[i].keyed
      /\ frames'[n + 1] = f
  <2>1. /\ WithTop(frames, h) \in Seq(Frame) /\ Len(WithTop(frames, h)) = n
        /\ \A i \in 1 .. n - 1 : WithTop(frames, h)[i] = frames[i]
        /\ WithTop(frames, h)[n] = h
    BY DEF WithTop
  <2>2. /\ Append(WithTop(frames, h), f) \in Seq(Frame)
        /\ DOMAIN Append(WithTop(frames, h), f) = 1 .. n + 1
        /\ \A i \in 1 .. n : Append(WithTop(frames, h), f)[i] = WithTop(frames, h)[i]
        /\ Append(WithTop(frames, h), f)[n + 1] = f
    BY <2>1, AppendLast
  <2>3. ASSUME NEW i \in 1 .. n
        PROVE  /\ frames'[i].at = frames[i].at /\ frames'[i].of = frames[i].of
               /\ frames'[i].scoped = frames[i].scoped /\ frames'[i].keyed = frames[i].keyed
    <3>1. n \in Nat /\ i \in 1 .. n
      BY <1>1
    <3>2. i = n \/ i \in 1 .. n - 1
      BY <3>1
    <3>3. frames'[i] = WithTop(frames, h)[i]
      BY <2>2
    <3>. QED
      BY <3>2, <3>3, <2>1, <1>1
  <2>. QED
    BY <2>2, <2>3
<1>3. FramesOfEntities'
  <2>1. \A i \in 1 .. n : frames'[i].at \notin {"member", "comments", "report"} => frames'[i].of \in Entity
    BY <1>1, <1>2 DEF FramesInv, FramesOfEntities
  <2>. QED
    BY <2>1, <1>1, <1>2 DEF FramesOfEntities
<1>4. DepthCountsScopes'
  <2>1. Scopes' = Scopes \cup {n + 1} /\ n + 1 \notin Scopes
    BY <1>1, <1>2 DEF Scopes
  <2>2. Cardinality(Scopes \cup {n + 1}) = Cardinality(Scopes) + 1
    BY <2>1, ScopesFinite, FS_AddElement
  <2>. QED
    BY <2>1, <2>2 DEF FramesInv, DepthCountsScopes
<1>5. LabelOnTop'
  <2>1. ASSUME NEW i \in 1 .. n + 1, frames'[i].at = "id" PROVE i \in 1 .. n /\ frames[i].at = "id"
    BY <2>1, <1>1, <1>2
  <2>2. ASSUME NEW i \in 1 .. n + 1, frames'[i].at = "id", NEW j \in 1 .. n + 1, j > i
        PROVE  frames'[j].at \in {"new", "cached", "defined"} /\ ~frames'[j].keyed
    BY <2>1, <2>2, <1>1, <1>2 DEF FramesInv, LabelOnTop
  <2>3. InLabel => InLabel'
    BY <1>1, <1>2 DEF InLabel
  <2>. QED
    BY <2>1, <2>2, <2>3, <1>1, <1>2 DEF FramesInv, LabelOnTop
<1>6. OneGuard'
  <2>0. /\ Len(tagStack) <= 1
        /\ \A i \in 1 .. n : frames[i].keyed => tagStack # <<>>
        /\ tagStack # <<>> => \E i \in 1 .. n : frames[i].keyed
        /\ \A i, j \in 1 .. n : frames[i].keyed /\ frames[j].keyed => i = j
        /\ \A i \in 1 .. n : frames[i].at = "location" =>
             /\ Behaviour[frames[i].of] = "PushesLabel"
             /\ \A j \in 1 .. n : j <= i => ~frames[j].keyed
        /\ \A i \in 1 .. n : frames[i].at = "complain" => Behaviour[frames[i].of] = "NeedsLabel"
    BY <1>1 DEF FramesInv, OneGuard
  <2>1. \A i \in 1 .. n + 1 : i \in 1 .. n \/ i = n + 1
    <3>1. n \in Nat
      BY <1>1
    <3>. QED
      BY <3>1
  <2>2. ~frames'[n + 1].keyed /\ frames'[n + 1].at = "new"
    BY <1>2
  <2>3. \A i \in 1 .. n + 1 : frames'[i].keyed => i \in 1 .. n /\ frames[i].keyed
    BY <2>1, <2>2, <1>2
  <2>4. \A i \in 1 .. n : i \in 1 .. n + 1
    BY <1>1
  <2>5. tagStack # <<>> => \E i \in 1 .. n + 1 : frames'[i].keyed
    BY <2>0, <2>4, <1>2
  <2>6. \A i \in 1 .. n + 1 : frames'[i].at = "location" =>
          /\ i \in 1 .. n /\ frames[i].at = "location" /\ frames'[i].of = frames[i].of
    BY <2>1, <2>2, <1>2
  <2>7. \A i \in 1 .. n + 1 : frames'[i].at = "location" =>
          /\ Behaviour[frames'[i].of] = "PushesLabel"
          /\ \A j \in 1 .. n + 1 : j <= i => ~frames'[j].keyed
    BY <2>0, <2>3, <2>6
  <2>8. \A i \in 1 .. n + 1 : frames'[i].at = "complain" => Behaviour[frames'[i].of] = "NeedsLabel"
    BY <2>0, <2>1, <2>2, <1>2
  <2>9. /\ \A i \in 1 .. n + 1 : frames'[i].keyed => tagStack # <<>>
        /\ \A i, j \in 1 .. n + 1 : frames'[i].keyed /\ frames'[j].keyed => i = j
    BY <2>0, <2>3
  <2>10. tagStack' = tagStack
    OBVIOUS
  <2>. QED
    BY <2>0, <2>5, <2>7, <2>8, <2>9, <2>10, <1>2 DEF OneGuard
<1>7. HandlerAtBottom'
  <2>1. phase' = phase
    OBVIOUS
  <2>2. \A i \in 1 .. n + 1 : i \in 1 .. n \/ frames'[i].at = "new"
    <3>1. n \in Nat
      BY <1>1
    <3>. QED
      BY <3>1, <1>2
  <2>. QED
    BY <2>1, <2>2, <1>1, <1>2 DEF FramesInv, HandlerAtBottom, IsHandler
<1>. QED
  BY <1>2, <1>3, <1>4, <1>5, <1>6, <1>7 DEF FramesInv

\* The top frame leaves; if it was writing a label, that is over.
LEMMA FrameLeaves ==
  ASSUME frames \in Seq(Frame), tagStack \in Seq(Entity), FramesInv, frames # <<>>, Leave,
         UNCHANGED phase,
         \/ Top.at # "id" /\ UNCHANGED writingLabel
         \/ Top.at = "id" /\ ~writingLabel'
  PROVE  FramesInv'
<1>. DEFINE n == Len(frames)
<1>1. /\ n \in Nat /\ n >= 1 /\ DOMAIN frames = 1 .. n /\ Top = frames[n] /\ Top \in Frame
  BY LastFront DEF Top
<1>2. /\ DOMAIN frames' = 1 .. n - 1
      /\ \A i \in 1 .. n - 1 : frames'[i] = frames[i]
  BY LastFront DEF Leave
<1>3. FramesOfEntities'
  BY <1>1, <1>2 DEF FramesInv, FramesOfEntities
<1>4. DepthCountsScopes'
  <2>1. Top.scoped \in BOOLEAN
    BY <1>1, FrameFields
  <2>2. IsFiniteSet(Scopes) /\ depth = Cardinality(Scopes)
    BY ScopesFinite DEF FramesInv, DepthCountsScopes
  <2>3. \A i \in 1 .. n - 1 : frames'[i].scoped = frames[i].scoped
    BY <1>2
  <2>4. Scopes' = Scopes \ {n}
    BY <2>3, <1>1, <1>2 DEF Scopes
  <2>5. Cardinality(Scopes \ {n}) = IF n \in Scopes THEN Cardinality(Scopes) - 1 ELSE Cardinality(Scopes)
    BY <2>2, FS_RemoveElement
  <2>6. n \in Scopes <=> Top.scoped
    BY <1>1 DEF Scopes
  <2>7. depth' = IF Top.scoped THEN depth - 1 ELSE depth
    BY DEF Leave
  <2>. QED
    BY <2>1, <2>2, <2>4, <2>5, <2>6, <2>7 DEF DepthCountsScopes
<1>5. LabelOnTop'
  <2>1. ASSUME NEW i \in 1 .. n - 1 PROVE i \in 1 .. n /\ n > i /\ frames'[i].at = frames[i].at
    BY <1>1, <1>2
  <2>2. CASE Top.at # "id" /\ UNCHANGED writingLabel
    <3>1. writingLabel => \E i \in 1 .. n - 1 : frames[i].at = "id"
      BY <2>2, <1>1 DEF FramesInv, LabelOnTop, InLabel
    <3>2. writingLabel => InLabel'
      BY <3>1, <2>1, <1>2 DEF InLabel
    <3>. QED
      BY <3>2, <2>1, <2>2, <1>1, <1>2 DEF FramesInv, LabelOnTop
  <2>3. CASE Top.at = "id" /\ ~writingLabel'
    <3>1. \A i \in 1 .. n : frames[i].at = "id" =>
            \A j \in 1 .. n : j > i => frames[j].at \in {"new", "cached", "defined"} /\ ~frames[j].keyed
      BY <1>1 DEF FramesInv, LabelOnTop
    <3>2. n \in 1 .. n /\ frames[n].at \notin {"new", "cached", "defined"}
      BY <1>1, <2>3
    <3>3. \A i \in 1 .. n - 1 : frames'[i].at # "id"
      BY <3>1, <3>2, <2>1
    <3>. QED
      BY <3>3, <2>3, <1>2 DEF LabelOnTop
  <2>. QED
    BY <2>2, <2>3
<1>6. OneGuard'
  <2>1. \A i \in 1 .. n - 1 : i \in 1 .. n /\ i # n /\ frames'[i] = frames[i]
    <3>1. ASSUME NEW i \in 1 .. n - 1
          PROVE  i \in 1 .. n /\ i # n /\ frames'[i] = frames[i]
      <4>1. n \in Nat /\ i \in 1 .. n - 1
        BY <1>1
      <4>2. i \in 1 .. n /\ i # n
        BY <4>1
      <4>. QED
        BY <4>2, <1>2
    <3>. QED
      BY <3>1
  <2>0. /\ Len(tagStack) <= 1
        /\ \A i \in 1 .. n : frames[i].keyed => tagStack # <<>>
        /\ tagStack # <<>> => \E i \in 1 .. n : frames[i].keyed
        /\ \A i, j \in 1 .. n : frames[i].keyed /\ frames[j].keyed => i = j
        /\ \A i \in 1 .. n : frames[i].at = "location" =>
             /\ Behaviour[frames[i].of] = "PushesLabel"
             /\ \A j \in 1 .. n : j <= i => ~frames[j].keyed
        /\ \A i \in 1 .. n : frames[i].at = "complain" => Behaviour[frames[i].of] = "NeedsLabel"
    BY <1>1 DEF FramesInv, OneGuard
  <2>2. \A i \in 1 .. n - 1 : frames'[i].at = "location" =>
          /\ Behaviour[frames'[i].of] = "PushesLabel"
          /\ \A j \in 1 .. n - 1 : j <= i => ~frames'[j].keyed
    BY <2>1, <2>0
  <2>3. \A i \in 1 .. n - 1 : frames'[i].at = "complain" => Behaviour[frames'[i].of] = "NeedsLabel"
    BY <2>1, <2>0
  <2>4. \A i, j \in 1 .. n - 1 : frames'[i].keyed /\ frames'[j].keyed => i = j
    BY <2>1, <2>0
  <2>5. Top.keyed \in BOOLEAN
    BY <1>1, FrameFields
  <2>6. CASE Top.keyed
    <3>0. n \in 1 .. n /\ frames[n].keyed
      BY <1>1, <2>6
    <3>1. \A i \in 1 .. n - 1 : ~frames'[i].keyed
      BY <2>1, <2>0, <3>0
    <3>2. tagStack # <<>> /\ Len(tagStack) <= 1
      BY <2>6, <2>0, <1>1
    <3>3. Len(tagStack') = 0 /\ tagStack' = <<>>
      <4>1. tagStack' = Front(tagStack)
        BY <2>6 DEF Leave
      <4>2. Len(Front(tagStack)) = Len(tagStack) - 1 /\ Front(tagStack) \in Seq(Entity)
            /\ Len(tagStack) \in Nat /\ Len(tagStack) >= 1
        BY <3>2, LastFront
      <4>3. Len(tagStack') = 0 /\ tagStack' \in Seq(Entity)
        BY <4>1, <4>2, <3>2
      <4>. QED
        BY <4>3, EmptySeq
    <3>4. /\ Len(tagStack') <= 1
          /\ \A i \in 1 .. n - 1 : frames'[i].keyed => tagStack' # <<>>
          /\ tagStack' # <<>> => \E i \in 1 .. n - 1 : frames'[i].keyed
      BY <3>1, <3>3
    <3>. QED
      BY <3>4, <2>2, <2>3, <2>4, <1>2 DEF OneGuard
  <2>7. CASE ~Top.keyed
    <3>1. tagStack' = tagStack
      BY <2>7 DEF Leave
    <3>2. ASSUME tagStack # <<>> PROVE \E i \in 1 .. n - 1 : frames'[i].keyed
      <4>1. PICK k \in 1 .. n : frames[k].keyed
        BY <2>0, <3>2
      <4>2. k # n /\ n \in Nat
        BY <4>1, <2>7, <1>1
      <4>3. k \in 1 .. n - 1
        BY <4>2
      <4>. QED
        BY <4>1, <4>3, <2>1
    <3>3. Len(tagStack) <= 1 /\ \A i \in 1 .. n - 1 : frames'[i].keyed => tagStack # <<>>
      BY <2>1, <2>0
    <3>4. /\ Len(tagStack') <= 1
          /\ \A i \in 1 .. n - 1 : frames'[i].keyed => tagStack' # <<>>
          /\ tagStack' # <<>> => \E i \in 1 .. n - 1 : frames'[i].keyed
      BY <3>1, <3>2, <3>3
    <3>. QED
      BY <3>4, <2>2, <2>3, <2>4, <1>2 DEF OneGuard
  <2>. QED
    BY <2>5, <2>6, <2>7
<1>7. HandlerAtBottom'
  BY <1>1, <1>2 DEF FramesInv, HandlerAtBottom, IsHandler
<1>. QED
  BY <1>3, <1>4, <1>5, <1>6, <1>7 DEF FramesInv

\* A frame without StackGuard starts on the empty stack, perhaps in a guard.
LEMMA StackStarts ==
  ASSUME frames = <<>>, FramesInv,
         NEW f \in Frame, frames' = <<f>>,
         f.at # "id", f.scoped = FALSE,
         UNCHANGED <<writingLabel, depth>>,
         IF f.keyed THEN \E e \in Entity : tagStack' = <<e>> ELSE UNCHANGED tagStack,
         f.at \in {"member", "comments"} => phase' \in {"extract", "comments"},
         f.at \notin {"member", "comments", "report"} => f.of \in Entity,
         f.at = "location" => Behaviour[f.of] = "PushesLabel" /\ ~f.keyed,
         f.at = "complain" => Behaviour[f.of] = "NeedsLabel",
         f.at = "report" => ~f.keyed
  PROVE  FramesInv'
<1>1. DOMAIN frames' = {1} /\ frames'[1] = f /\ DOMAIN frames = {}
  OBVIOUS
<1>2. FramesOfEntities'
  BY <1>1 DEF FramesOfEntities
<1>3. DepthCountsScopes'
  <2>1. Scopes = {} /\ Scopes' = {}
    BY <1>1 DEF Scopes
  <2>. QED
    BY <2>1 DEF FramesInv, DepthCountsScopes
<1>4. ~writingLabel
  BY <1>1 DEF FramesInv, LabelOnTop, InLabel
<1>5. LabelOnTop'
  BY <1>1, <1>4 DEF LabelOnTop
<1>6. tagStack = <<>>
  BY <1>1 DEF FramesInv, OneGuard
<1>7. OneGuard'
  BY <1>1, <1>6 DEF OneGuard
<1>8. HandlerAtBottom'
  BY <1>1 DEF HandlerAtBottom, IsHandler
<1>. QED
  BY <1>2, <1>3, <1>5, <1>7, <1>8 DEF FramesInv

\* Nothing but the phase changes, on the empty stack.
LEMMA StackStaysEmpty ==
  ASSUME frames = <<>>, FramesInv, UNCHANGED <<frames, writingLabel, tagStack, depth>>
  PROVE  FramesInv'
<1>1. DOMAIN frames = {} /\ DOMAIN frames' = {}
  OBVIOUS
<1>. QED
  BY <1>1 DEF FramesInv, FramesOfEntities, DepthCountsScopes, Scopes, LabelOnTop, InLabel,
     OneGuard, HandlerAtBottom

\* The top frame enters its duplication guard.
LEMMA GuardIsPushed ==
  ASSUME frames \in Seq(Frame), tagStack \in Seq(Entity), FramesInv, frames # <<>>,
         NEW f \in Frame, frames' = WithTop(frames, f),
         Top.at = "location", Top.of \in Entity, f.at = "populate",
         f.of = Top.of, f.scoped = Top.scoped, f.keyed = TRUE,
         tagStack' = Append(tagStack, Top.of), UNCHANGED <<phase, writingLabel, depth>>
  PROVE  FramesInv' /\ tagStack' = <<Top.of>>
<1>. DEFINE n == Len(frames)
<1>1. /\ n \in Nat /\ n >= 1 /\ DOMAIN frames = 1 .. n /\ Top = frames[n] /\ Top \in Frame
  BY TopReplaced
<1>2. /\ DOMAIN frames' = 1 .. n
      /\ \A i \in 1 .. n - 1 : frames'[i] = frames[i]
      /\ frames'[n] = f
  BY TopReplaced
<1>3. FramesOfEntities'
  BY <1>1, <1>2 DEF FramesInv, FramesOfEntities
<1>4. DepthCountsScopes'
  <2>1. ASSUME NEW i \in 1 .. n PROVE frames'[i].scoped = frames[i].scoped
    BY <1>1, <1>2
  <2>2. Scopes' = Scopes
    BY <2>1, <1>1, <1>2 DEF Scopes
  <2>. QED
    BY <2>2 DEF FramesInv, DepthCountsScopes
<1>5. ~writingLabel
  BY NotInLabel
<1>6. LabelOnTop'
  <2>1. ASSUME NEW i \in 1 .. n PROVE frames'[i].at # "id"
    BY <1>1, <1>2, <1>5 DEF FramesInv, LabelOnTop
  <2>. QED
    BY <2>1, <1>2, <1>5 DEF LabelOnTop
<1>7. /\ tagStack # <<>> => \E i \in 1 .. n : frames[i].keyed
      /\ frames[n].at = "location" => \A j \in 1 .. n : j <= n => ~frames[j].keyed
      /\ \A i \in 1 .. n : frames[i].at = "location" => Behaviour[frames[i].of] = "PushesLabel"
      /\ \A i \in 1 .. n : frames[i].at = "complain" => Behaviour[frames[i].of] = "NeedsLabel"
  BY <1>1 DEF FramesInv, OneGuard
<1>8. \A j \in 1 .. n : ~frames[j].keyed
  BY <1>1, <1>7
<1>9. tagStack' = <<Top.of>>
  <2>1. tagStack = <<>>
    BY <1>7, <1>8
  <2>2. tagStack' = Append(<<>>, Top.of)
    BY <2>1
  <2>. QED
    BY <2>2
<1>10. \A i \in 1 .. n : i # n => frames'[i] = frames[i] /\ i < n
  <2>1. ASSUME NEW i \in 1 .. n, i # n PROVE i < n /\ i \in 1 .. n - 1
    <3>1. n \in Nat /\ i \in 1 .. n
      BY <1>1
    <3>. QED
      BY <2>1, <3>1
  <2>. QED
    BY <2>1, <1>2
<1>11. OneGuard'
  <2>1. Len(tagStack') <= 1 /\ tagStack' # <<>>
    BY <1>9
  <2>2. \A i \in 1 .. n : frames'[i].keyed => i = n
    BY <1>8, <1>10
  <2>3. n \in 1 .. n /\ frames'[n].keyed
    BY <1>1, <1>2
  <2>4. \A i \in 1 .. n : frames'[i].at = "location" =>
          /\ Behaviour[frames'[i].of] = "PushesLabel"
          /\ \A j \in 1 .. n : j <= i => ~frames'[j].keyed
    <3>1. ASSUME NEW i \in 1 .. n, frames'[i].at = "location"
          PROVE  i < n /\ frames'[i] = frames[i]
      BY <3>1, <1>2, <1>10
    <3>2. ASSUME NEW i \in 1 .. n, i < n, NEW j \in 1 .. n, j <= i PROVE j # n
      <4>1. n \in Nat /\ i \in 1 .. n /\ j \in 1 .. n
        BY <1>1
      <4>. QED
        BY <4>1, <3>2
    <3>. QED
      BY <3>1, <3>2, <2>2, <1>7
  <2>5. \A i \in 1 .. n : frames'[i].at = "complain" => Behaviour[frames'[i].of] = "NeedsLabel"
    BY <1>2, <1>7, <1>10
  <2>. QED
    BY <2>1, <2>2, <2>3, <2>4, <2>5, <1>2 DEF OneGuard
<1>12. HandlerAtBottom'
  BY <1>1, <1>2 DEF FramesInv, HandlerAtBottom, IsHandler
<1>. QED
  BY <1>3, <1>4, <1>6, <1>9, <1>11, <1>12 DEF FramesInv

-----------------------------------------------------------------------------
(* Types.                                                                  *)

\* What the assumption says, fact by fact.
LEMMA Constants ==
  /\ NoEntity \notin Entity /\ MaxDepth \in Nat /\ MaxDepth >= 1
  /\ ErrorLocation \in SUBSET Entity /\ Comments \in SUBSET Entity
  /\ \A e \in Entity, s \in Section : Uses[e][s] \in SUBSET Entity
  /\ \A i \in 1 .. Len(Members) : Members[i] \in SUBSET Entity
  /\ Len(Members) \in Nat
BY ContextAssumption

\* The top frame is a frame, of an entity unless it belongs to the task.
LEMMA TopIsFrame ==
  ASSUME TypeOK, FramesInv, frames # <<>>
  PROVE  /\ frames \in Seq(Frame) /\ Top \in Frame
         /\ Top.at \notin {"member", "comments", "report"} => Top.of \in Entity
<1>0. frames \in Seq(Frame)
  BY DEF TypeOK
<1>1. /\ frames \in Seq(Frame) /\ Top \in Frame
      /\ Len(frames) \in DOMAIN frames /\ Top = frames[Len(frames)]
  BY <1>0, LastFront DEF Top
<1>. QED
  BY <1>1 DEF FramesInv, FramesOfEntities

\* What Leave leaves is well-typed.
LEMMA LeaveTypes ==
  ASSUME TypeOK, FramesInv, frames # <<>>, Leave
  PROVE  frames' \in Seq(Frame) /\ tagStack' \in Seq(Entity) /\ depth' \in 0 .. MaxDepth
<1>0. frames \in Seq(Frame) /\ tagStack \in Seq(Entity)
  BY DEF TypeOK
<1>1. /\ frames \in Seq(Frame) /\ Top \in Frame /\ tagStack \in Seq(Entity)
      /\ Len(frames) \in DOMAIN frames /\ Top = frames[Len(frames)]
  BY <1>0, LastFront DEF Top
<1>2. Top.keyed => tagStack # <<>>
  BY <1>1 DEF FramesInv, OneGuard
<1>3. frames' \in Seq(Frame) /\ tagStack' \in Seq(Entity)
  BY <1>1, <1>2, LastFront DEF Leave
<1>4. depth \in 0 .. MaxDepth /\ MaxDepth \in Nat /\ (Top.scoped => depth >= 1)
  BY DepthIsNat, Constants DEF TypeOK, FramesInv
<1>5. depth' = IF Top.scoped THEN depth - 1 ELSE depth
  BY DEF Leave
<1>. QED
  BY <1>3, <1>4, <1>5

\* An action that PopulateLater queues.
LEMMA GuardedIsAction ==
  ASSUME TypeOK, NEW do \in {"define", "populate", "later"}, NEW e \in Entity, NEW label \in Nat
  PROVE  Guarded(do, e, label) \in Action /\ Guarded(do, e, label).do # "perform"
<1>1. (IF tagStack = <<>> THEN NoEntity ELSE Last(tagStack)) \in Entity \cup {NoEntity}
  BY LastFront DEF TypeOK
<1>. QED
  BY <1>1 DEF Guarded, Action

\* Appending to the queue.
LEMMA QueueGrows ==
  ASSUME TypeOK, WaitsWithoutGuard, NEW a \in Action, populateQueue' = Append(populateQueue, a),
         a.do = "perform" => a.guard = NoEntity
  PROVE  populateQueue' \in Seq(Action) /\ WaitsWithoutGuard'
<1>. DEFINE n == Len(populateQueue)
<1>1. populateQueue \in Seq(Action) /\ n \in Nat /\ DOMAIN populateQueue = 1 .. n
  BY DEF TypeOK
<1>2. /\ populateQueue' \in Seq(Action) /\ DOMAIN populateQueue' = 1 .. n + 1
      /\ \A i \in 1 .. n : populateQueue'[i] = populateQueue[i]
      /\ populateQueue'[n + 1] = a
  BY <1>1, AppendLast
<1>3. ASSUME NEW i \in 1 .. n + 1, populateQueue'[i].do = "perform"
      PROVE  populateQueue'[i].guard = NoEntity
  <2>1. n \in Nat /\ i \in 1 .. n + 1
    BY <1>1
  <2>2. CASE i \in 1 .. n
    BY <2>2, <1>1, <1>2, <1>3 DEF WaitsWithoutGuard
  <2>3. CASE i = n + 1
    BY <2>3, <1>2, <1>3
  <2>. QED
    BY <2>1, <2>2, <2>3
<1>. QED
  BY <1>2, <1>3 DEF WaitsWithoutGuard

-----------------------------------------------------------------------------
(* Every action keeps ContextInv.                                          *)

\* Creating an entity: a hit, a refusal, a constructor call.
LEMMA CreateKeepsInv ==
  ASSUME ContextInv, NEW e \in Entity, CreateHit(e) \/ CreateTooDeep(e) \/ CreateNew(e)
  PROVE  ContextInv'
<1>. DEFINE h == [Top EXCEPT !.left = @ \ {e}]
<1>1. TypeOK /\ FramesInv /\ WaitsWithoutGuard /\ frames # <<>>
  BY DEF ContextInv, CreateHit, CreateTooDeep, CreateNew, Running
<1>2. frames \in Seq(Frame) /\ Top \in Frame
  BY <1>1, TopIsFrame
<1>3. /\ h \in Frame /\ h.at = Top.at /\ h.of = Top.of
      /\ h.scoped = Top.scoped /\ h.keyed = Top.keyed
  BY <1>2 DEF Frame
<1>4. Created(e) = WithTop(frames, h)
  BY DEF Created
<1>5. CASE CreateHit(e) \/ CreateTooDeep(e)
  <2>1. frames' = WithTop(frames, h) /\ UNCHANGED <<phase, writingLabel, tagStack, depth>>
    BY <1>4, <1>5 DEF CreateHit, CreateTooDeep, task
  <2>2. FramesInv'
    BY <1>1, <1>2, <1>3, <2>1, TopMovesOn
  <2>3. frames' \in Seq(Frame)
    BY <1>1, <1>2, <1>3, <2>1, ReplaceLast
  <2>4. TypeOK'
    BY <1>1, <1>5, <2>3 DEF TypeOK, CreateHit, CreateTooDeep, task, trapFile
  <2>5. WaitsWithoutGuard'
    BY <1>1, <1>5 DEF WaitsWithoutGuard, CreateHit, CreateTooDeep
  <2>. QED
    BY <2>2, <2>4, <2>5 DEF ContextInv
<1>6. CASE CreateNew(e)
  <2>. DEFINE c == Call("new", e, Uses[e]["new"])
  <2>1. /\ depth < MaxDepth /\ depth' = depth + 1 /\ nextLabel' \in Nat
        /\ UNCHANGED <<phase, writingLabel, tagStack>>
    BY <1>1, <1>6 DEF CreateNew, task, TypeOK
  <2>2. c \in Frame /\ c.at = "new" /\ c.of = e /\ c.keyed = FALSE
    <3>1. "new" \in Where /\ Uses[e]["new"] \in SUBSET Entity /\ e \in Entity \cup {NoEntity}
      BY Constants DEF Where, Section
    <3>. QED
      BY <3>1 DEF Call, Frame
  <2>3. nextLabel \in Nat
    BY <1>1 DEF TypeOK
  <2>4. PICK f : /\ frames' = Append(Created(e), f)
                 /\ f \in {[c EXCEPT !.scoped = TRUE],
                          [c EXCEPT !.scoped = TRUE, !.label = nextLabel]}
    BY <1>6 DEF CreateNew
  <2>5. /\ f \in Frame /\ f.at = "new" /\ f.of = e /\ f.scoped = TRUE /\ f.keyed = FALSE
    <3>. HIDE DEF c
    <3>. QED
      BY <2>2, <2>3, <2>4 DEF Frame
  <2>6. FramesInv' /\ frames' \in Seq(Frame)
    <3>. HIDE DEF c, h
    <3>. QED
      BY <1>1, <1>2, <1>3, <1>4, <2>1, <2>4, <2>5, FrameIsPushed
  <2>7. depth' \in 0 .. MaxDepth
    BY <1>1, <2>1, Constants DEF TypeOK
  <2>8. TypeOK'
    BY <1>1, <1>6, <2>1, <2>6, <2>7 DEF TypeOK, CreateNew, task, trapFile
  <2>9. WaitsWithoutGuard'
    BY <1>1, <1>6 DEF WaitsWithoutGuard, CreateNew
  <2>. QED
    BY <2>6, <2>8, <2>9 DEF ContextInv
<1>. QED
  BY <1>5, <1>6

\* The actions that end a frame by Leave.
LEMMA LeaveKeepsInv ==
  ASSUME ContextInv,
         ConstructKnown \/ PopulateNot \/ PopulateAfterLabel \/ PopulateDeferred \/ Return
           \/ Propagate
  PROVE  ContextInv'
<1>1. /\ TypeOK /\ FramesInv /\ WaitsWithoutGuard /\ frames # <<>>
      /\ Leave /\ Top.at # "id"
      /\ UNCHANGED <<task, raised, cache, nextLabel, writingLabel, trapFile, home, thrown>>
  BY DEF ContextInv, ConstructKnown, PopulateNot, PopulateAfterLabel, PopulateDeferred, Return,
     Propagate, Running
<1>2. frames \in Seq(Frame) /\ Top \in Frame /\ tagStack \in Seq(Entity)
  BY <1>1, TopIsFrame DEF TypeOK
<1>3. FramesInv'
  BY <1>1, <1>2, FrameLeaves DEF task
<1>4. frames' \in Seq(Frame) /\ tagStack' \in Seq(Entity) /\ depth' \in 0 .. MaxDepth
  BY <1>1, LeaveTypes
<1>5. populateQueue' \in Seq(Action) /\ WaitsWithoutGuard'
  <2>1. CASE UNCHANGED populateQueue
    BY <1>1, <2>1 DEF TypeOK, WaitsWithoutGuard
  <2>2. Top.label \in Nat
    BY <1>2, FrameFields
  <2>3. CASE PopulateAfterLabel
    <3>1. Top.of \in Entity
      BY <1>1, <2>3, TopIsFrame DEF PopulateAfterLabel
    <3>2. Guarded("populate", Top.of, Top.label) \in Action
          /\ Guarded("populate", Top.of, Top.label).do # "perform"
      BY <1>1, <2>2, <3>1, GuardedIsAction
    <3>. QED
      BY <1>1, <2>3, <3>2, QueueGrows DEF PopulateAfterLabel, PopulateLater
  <2>4. CASE PopulateDeferred
    <3>1. Top.of \in Entity
      BY <1>1, <2>4, TopIsFrame DEF PopulateDeferred
    <3>2. Perform(Top.of, Top.label) \in Action /\ Perform(Top.of, Top.label).guard = NoEntity
      BY <2>2, <3>1 DEF Perform, Action
    <3>. QED
      BY <1>1, <2>4, <3>2, QueueGrows DEF PopulateDeferred
  <2>. QED
    BY <2>1, <2>3, <2>4 DEF ConstructKnown, PopulateNot, Return, Propagate
<1>6. TypeOK'
  BY <1>1, <1>4, <1>5 DEF TypeOK, task, trapFile
<1>. QED
  BY <1>3, <1>5, <1>6 DEF ContextInv

\* The names of places are places.
LEMMA Places ==
  /\ "new" \in Where /\ "id" \in Where /\ "location" \in Where /\ "populate" \in Where
  /\ "later" \in Where /\ "member" \in Where /\ "comments" \in Where /\ "cached" \in Where
  /\ "defined" \in Where /\ "complain" \in Where /\ "report" \in Where
BY DEF Where, Section

\* The constructor has returned a new entity.
LEMMA ConstructKeepsInv ==
  ASSUME ContextInv, Construct
  PROVE  ContextInv'
<1>1. TypeOK /\ FramesInv /\ WaitsWithoutGuard /\ frames # <<>> /\ Top.at = "new"
  BY DEF ContextInv, Construct, Running
<1>2. frames \in Seq(Frame) /\ Top \in Frame /\ Top.of \in Entity /\ Top.label \in Nat
  BY <1>1, TopIsFrame, FrameFields
<1>3. nextLabel \in Nat
  BY <1>1 DEF TypeOK
<1>4. PICK f : /\ frames' = WithTop(frames, f)
               /\ f \in {[Top EXCEPT !.at = "cached", !.label = nextLabel],
                        [Top EXCEPT !.at = "cached", !.left = {}]}
  BY DEF Construct, Goto
<1>5. /\ f \in Frame /\ f.at = "cached" /\ f.of = Top.of
      /\ f.scoped = Top.scoped /\ f.keyed = Top.keyed
  BY <1>2, <1>3, <1>4, Places DEF Frame
<1>6. UNCHANGED <<phase, writingLabel, tagStack, depth>>
  BY DEF Construct, task
<1>7. FramesInv'
  BY <1>1, <1>2, <1>4, <1>5, <1>6, TopMovesOn DEF IsHandler
<1>8. frames' \in Seq(Frame)
  BY <1>1, <1>2, <1>4, <1>5, ReplaceLast
<1>9. /\ cache' \in [Entity -> Nat] /\ nextLabel' \in Nat /\ home' \in [Entity -> Seq(Entity)]
  <2>1. cache \in [Entity -> Nat] /\ home \in [Entity -> Seq(Entity)] /\ tagStack \in Seq(Entity)
    BY <1>1 DEF TypeOK
  <2>2. cache' \in [Entity -> Nat] /\ nextLabel' \in Nat
    <3>1. CASE Top.of \in SecondCache
      <4>1. cache' = [cache EXCEPT ![Top.of] = nextLabel] /\ nextLabel' = nextLabel + 1
        BY <3>1 DEF Construct
      <4>. QED
        BY <1>2, <1>3, <2>1, <4>1
    <3>2. CASE Top.of \notin SecondCache
      <4>1. cache' = [cache EXCEPT ![Top.of] = Top.label] /\ nextLabel' = nextLabel
        BY <3>2 DEF Construct
      <4>. QED
        BY <1>2, <1>3, <2>1, <4>1
    <3>. QED
      BY <3>1, <3>2
  <2>3. home' = [home EXCEPT ![Top.of] = tagStack]
    BY DEF Construct
  <2>4. home' \in [Entity -> Seq(Entity)]
    BY <1>2, <2>1, <2>3
  <2>. QED
    BY <2>2, <2>4
<1>10. TypeOK'
  BY <1>1, <1>8, <1>9 DEF TypeOK, Construct, task, trapFile
<1>11. WaitsWithoutGuard'
  BY <1>1 DEF WaitsWithoutGuard, Construct
<1>. QED
  BY <1>7, <1>10, <1>11 DEF ContextInv

\* The definition of a label begins, ends or is put off.
LEMMA LabelKeepsInv ==
  ASSUME ContextInv, BeginLabel \/ DefineLabelLater \/ EndLabel
  PROVE  ContextInv'
<1>1. TypeOK /\ FramesInv /\ WaitsWithoutGuard /\ frames # <<>> /\ Top.at \in {"cached", "id"}
  BY DEF ContextInv, BeginLabel, DefineLabelLater, EndLabel, Running
<1>2. /\ frames \in Seq(Frame) /\ Top \in Frame /\ Top.of \in Entity /\ Top.label \in Nat
      /\ tagStack \in Seq(Entity)
  BY <1>1, TopIsFrame, FrameFields DEF TypeOK
<1>3. CASE BeginLabel
  <2>. DEFINE f == [Top EXCEPT !.at = "id", !.left = Uses[Top.of]["id"]]
  <2>1. Uses[Top.of]["id"] \in SUBSET Entity
    BY <1>2, Constants DEF Section
  <2>2. f \in Frame /\ f.at = "id" /\ f.of = Top.of /\ f.scoped = Top.scoped /\ f.keyed = Top.keyed
    BY <1>2, <2>1, Places DEF Frame
  <2>3. frames' = WithTop(frames, f) /\ ~writingLabel /\ writingLabel' = TRUE
        /\ UNCHANGED <<phase, tagStack, depth>>
    BY <1>3 DEF BeginLabel, Goto, task
  <2>4. FramesInv' /\ frames' \in Seq(Frame)
    <3>. HIDE DEF f
    <3>. QED
      BY <1>1, <1>2, <2>2, <2>3, TopWrites, ReplaceLast
  <2>5. TypeOK'
    BY <1>1, <1>3, <2>3, <2>4 DEF TypeOK, BeginLabel, task, trapFile
  <2>6. WaitsWithoutGuard'
    BY <1>1, <1>3 DEF WaitsWithoutGuard, BeginLabel
  <2>. QED
    BY <2>4, <2>5, <2>6 DEF ContextInv
<1>4. CASE DefineLabelLater
  <2>. DEFINE f == [Top EXCEPT !.at = "defined", !.left = {}]
  <2>1. f \in Frame /\ f.at = "defined" /\ f.of = Top.of /\ f.scoped = Top.scoped /\ f.keyed = Top.keyed
    BY <1>2, Places DEF Frame
  <2>2. frames' = WithTop(frames, f) /\ UNCHANGED <<phase, writingLabel, tagStack, depth>>
        /\ Top.at = "cached"
    BY <1>4 DEF DefineLabelLater, Goto, task
  <2>3. FramesInv' /\ frames' \in Seq(Frame)
    <3>. HIDE DEF f
    <3>. QED
      BY <1>1, <1>2, <2>1, <2>2, TopMovesOn, ReplaceLast DEF IsHandler
  <2>4. Guarded("define", Top.of, Top.label) \in Action
        /\ Guarded("define", Top.of, Top.label).do # "perform"
    BY <1>1, <1>2, GuardedIsAction
  <2>5. populateQueue' \in Seq(Action) /\ WaitsWithoutGuard'
    BY <1>1, <1>4, <2>4, QueueGrows DEF DefineLabelLater, PopulateLater
  <2>6. TypeOK'
    BY <1>1, <1>4, <2>3, <2>5 DEF TypeOK, DefineLabelLater, task, trapFile
  <2>. QED
    BY <2>3, <2>5, <2>6 DEF ContextInv
<1>5. CASE EndLabel
  <2>1. Top.at = "id" /\ writingLabel' = FALSE /\ UNCHANGED <<fromSource, phase, visited>>
    BY <1>5 DEF EndLabel, task
  <2>2. FramesInv' /\ frames' \in Seq(Frame) /\ tagStack' \in Seq(Entity) /\ depth' \in 0 .. MaxDepth
    <3>1. CASE Top.scoped
      <4>. DEFINE f == [Top EXCEPT !.at = "defined", !.left = {}]
      <4>1. f \in Frame /\ f.at = "defined" /\ f.of = Top.of /\ f.scoped = Top.scoped
            /\ f.keyed = Top.keyed
        BY <1>2, Places DEF Frame
      <4>2. frames' = WithTop(frames, f) /\ UNCHANGED <<tagStack, depth>>
        BY <1>5, <3>1 DEF EndLabel, Goto
      <4>3. FramesInv' /\ frames' \in Seq(Frame)
        <5>. HIDE DEF f
        <5>. QED
          BY <1>1, <1>2, <2>1, <4>1, <4>2, TopWrites, ReplaceLast
      <4>. QED
        BY <1>1, <4>2, <4>3 DEF TypeOK
    <3>2. CASE ~Top.scoped
      <4>1. Leave
        BY <1>5, <3>2 DEF EndLabel
      <4>2. FramesInv'
        BY <1>1, <1>2, <2>1, <4>1, FrameLeaves
      <4>. QED
        BY <1>1, <4>1, <4>2, LeaveTypes
    <3>. QED
      BY <3>1, <3>2
  <2>3. definitions' \in [Entity -> Nat]
    BY <1>1, <1>2, <1>5 DEF TypeOK, EndLabel
  <2>4. TypeOK'
    BY <1>1, <1>5, <2>1, <2>2, <2>3 DEF TypeOK, EndLabel, task
  <2>5. WaitsWithoutGuard'
    BY <1>1, <1>5 DEF WaitsWithoutGuard, EndLabel
  <2>. QED
    BY <2>2, <2>4, <2>5 DEF ContextInv
<1>. QED
  BY <1>3, <1>4, <1>5

\* Entering the code that populates an entity.
LEMMA BeginKeepsFrames ==
  ASSUME TypeOK, FramesInv, frames # <<>>, Top.of \in Entity,
         Top.at \in {"defined", "complain"}, ~writingLabel, ~MustWait(Top.of), Begin(Top.of),
         UNCHANGED <<phase, writingLabel, tagStack, depth>>
  PROVE  /\ FramesInv' /\ frames' \in Seq(Frame) /\ populations' \in [Entity -> Nat]
<1>1. frames \in Seq(Frame) /\ Top \in Frame
  BY TopIsFrame
<1>2. CASE Behaviour[Top.of] = "PushesLabel"
  <2>. DEFINE f == [Top EXCEPT !.at = "location", !.left = Uses[Top.of]["location"]]
  <2>1. Uses[Top.of]["location"] \in SUBSET Entity
    BY Constants DEF Section
  <2>2. f \in Frame /\ f.at = "location" /\ f.of = Top.of /\ f.scoped = Top.scoped
        /\ f.keyed = Top.keyed
    BY <1>1, <2>1, Places DEF Frame
  <2>3. frames' = WithTop(frames, f) /\ UNCHANGED populations /\ tagStack = <<>>
    BY <1>2 DEF Begin, Goto, MustWait
  <2>4. FramesInv' /\ frames' \in Seq(Frame)
    <3>. HIDE DEF f
    <3>. QED
      BY <1>1, <1>2, <2>2, <2>3, TopMovesOn, ReplaceLast DEF IsHandler
  <2>. QED
    BY <2>3, <2>4 DEF TypeOK
<1>3. CASE Behaviour[Top.of] # "PushesLabel"
  <2>. DEFINE f == [Top EXCEPT !.at = "populate", !.left = Uses[Top.of]["populate"],
                               !.defers = Uses[Top.of]["later"] # {}]
  <2>1. Uses[Top.of]["populate"] \in SUBSET Entity
    BY Constants DEF Section
  <2>2. f \in Frame /\ f.at = "populate" /\ f.of = Top.of /\ f.scoped = Top.scoped
        /\ f.keyed = Top.keyed
    BY <1>1, <2>1, Places DEF Frame
  <2>3. frames' = WithTop(frames, f) /\ populations' = [populations EXCEPT ![Top.of] = @ + 1]
    BY <1>3 DEF Begin
  <2>4. FramesInv' /\ frames' \in Seq(Frame)
    <3>. HIDE DEF f
    <3>. QED
      BY <1>1, <2>2, <2>3, TopMovesOn, ReplaceLast DEF IsHandler
  <2>5. populations \in [Entity -> Nat]
    BY DEF TypeOK
  <2>. QED
    BY <2>3, <2>4, <2>5
<1>. QED
  BY <1>2, <1>3

\* Population starts, at once or after a complaint, or its body is put off.
LEMMA PopulateKeepsInv ==
  ASSUME ContextInv, PopulateNow \/ Complained \/ DeferPart
  PROVE  ContextInv'
<1>1. TypeOK /\ FramesInv /\ WaitsWithoutGuard /\ frames # <<>>
  BY DEF ContextInv, PopulateNow, Complained, DeferPart, Running
<1>2. frames \in Seq(Frame) /\ Top \in Frame /\ Top.of \in Entity /\ Top.label \in Nat
  BY <1>1, TopIsFrame, FrameFields DEF PopulateNow, Complained, DeferPart
<1>3. UNCHANGED <<phase, writingLabel, tagStack, depth>>
  BY DEF PopulateNow, Complained, DeferPart, task
<1>4. CASE PopulateNow
  <2>1. FramesInv' /\ frames' \in Seq(Frame) /\ populations' \in [Entity -> Nat]
    <3>1. CASE Unguarded(Top.of)
      <4>. DEFINE f == [Top EXCEPT !.at = "complain", !.left = ErrorLocation]
      <4>1. f \in Frame /\ f.at = "complain" /\ f.of = Top.of /\ f.scoped = Top.scoped
            /\ f.keyed = Top.keyed
        BY <1>2, Places, Constants DEF Frame
      <4>2. frames' = WithTop(frames, f) /\ UNCHANGED populations /\ ~writingLabel
            /\ Top.at = "defined" /\ Behaviour[Top.of] = "NeedsLabel"
        BY <1>4, <3>1 DEF PopulateNow, Goto, Unguarded
      <4>3. FramesInv' /\ frames' \in Seq(Frame)
        <5>. HIDE DEF f
        <5>. QED
          BY <1>1, <1>2, <1>3, <4>1, <4>2, TopMovesOn, ReplaceLast DEF IsHandler
      <4>. QED
        BY <1>1, <4>2, <4>3 DEF TypeOK
    <3>2. CASE ~Unguarded(Top.of)
      <4>1. Begin(Top.of) /\ ~writingLabel /\ ~MustWait(Top.of) /\ Top.at = "defined"
        BY <1>4, <3>2 DEF PopulateNow
      <4>. QED
        BY <1>1, <1>2, <1>3, <4>1, BeginKeepsFrames
    <3>. QED
      BY <3>1, <3>2
  <2>2. TypeOK'
    BY <1>1, <1>3, <1>4, <2>1 DEF TypeOK, PopulateNow, task
  <2>3. WaitsWithoutGuard'
    BY <1>1, <1>4 DEF WaitsWithoutGuard, PopulateNow
  <2>. QED
    BY <2>1, <2>2, <2>3 DEF ContextInv
<1>5. CASE Complained
  <2>1. Begin(Top.of) /\ Top.at = "complain"
    BY <1>5 DEF Complained
  <2>2. ~writingLabel
    BY <1>1, <1>2, <2>1, NotInLabel
  <2>3. Behaviour[Top.of] = "NeedsLabel"
    <3>1. Len(frames) \in DOMAIN frames /\ Top = frames[Len(frames)]
      BY <1>1, <1>2, LastFront DEF Top
    <3>. QED
      BY <1>1, <2>1, <3>1 DEF FramesInv, OneGuard
  <2>4. ~MustWait(Top.of)
    BY <2>3 DEF MustWait
  <2>5. FramesInv' /\ frames' \in Seq(Frame) /\ populations' \in [Entity -> Nat]
    BY <1>1, <1>2, <1>3, <2>1, <2>2, <2>4, BeginKeepsFrames
  <2>6. TypeOK'
    BY <1>1, <1>3, <1>5, <2>5 DEF TypeOK, Complained, task
  <2>7. WaitsWithoutGuard'
    BY <1>1, <1>5 DEF WaitsWithoutGuard, Complained
  <2>. QED
    BY <2>5, <2>6, <2>7 DEF ContextInv
<1>6. CASE DeferPart
  <2>. DEFINE f == [Top EXCEPT !.defers = FALSE]
  <2>1. f \in Frame /\ f.at = Top.at /\ f.of = Top.of /\ f.scoped = Top.scoped
        /\ f.keyed = Top.keyed
    BY <1>2 DEF Frame
  <2>2. frames' = WithTop(frames, f)
    BY <1>6 DEF DeferPart
  <2>3. FramesInv' /\ frames' \in Seq(Frame)
    <3>. HIDE DEF f
    <3>. QED
      BY <1>1, <1>2, <1>3, <2>1, <2>2, TopMovesOn, ReplaceLast
  <2>4. Guarded("later", Top.of, Top.label) \in Action
        /\ Guarded("later", Top.of, Top.label).do # "perform"
    BY <1>1, <1>2, GuardedIsAction
  <2>5. populateQueue' \in Seq(Action) /\ WaitsWithoutGuard'
    BY <1>1, <1>6, <2>4, QueueGrows DEF DeferPart, PopulateLater
  <2>6. TypeOK'
    BY <1>1, <1>6, <2>3, <2>5 DEF TypeOK, DeferPart, task, trapFile
  <2>. QED
    BY <2>3, <2>5, <2>6 DEF ContextInv
<1>. QED
  BY <1>4, <1>5, <1>6

\* The location is there: WithDuplicationGuard.
LEMMA GuardKeepsInv ==
  ASSUME ContextInv, PushGuard
  PROVE  ContextInv'
<1>1. TypeOK /\ FramesInv /\ WaitsWithoutGuard /\ frames # <<>> /\ Top.at = "location"
  BY DEF ContextInv, PushGuard, Running
<1>2. frames \in Seq(Frame) /\ Top \in Frame /\ Top.of \in Entity /\ tagStack \in Seq(Entity)
  BY <1>1, TopIsFrame DEF TypeOK
<1>. DEFINE f == [Top EXCEPT !.at = "populate", !.left = Uses[Top.of]["populate"],
                             !.defers = Uses[Top.of]["later"] # {}, !.keyed = fromSource]
<1>3. Uses[Top.of]["populate"] \in SUBSET Entity /\ fromSource \in BOOLEAN
  BY <1>1, <1>2, Constants DEF Section, TypeOK
<1>4. f \in Frame /\ f.at = "populate" /\ f.of = Top.of /\ f.scoped = Top.scoped
      /\ f.keyed = fromSource
  BY <1>2, <1>3, Places DEF Frame
<1>5. /\ frames' = WithTop(frames, f)
      /\ UNCHANGED <<phase, writingLabel, depth>>
      /\ tagStack' = IF fromSource THEN Append(tagStack, Top.of) ELSE tagStack
      /\ populations' = [populations EXCEPT ![Top.of] = @ + 1]
  BY DEF PushGuard, task
<1>. HIDE DEF f
<1>6. ~writingLabel
  BY <1>1, <1>2, NotInLabel
<1>7. ~Top.keyed /\ Top.keyed \in BOOLEAN
  <2>1. Len(frames) \in DOMAIN frames /\ Len(frames) <= Len(frames) /\ Top = frames[Len(frames)]
    BY <1>1, <1>2, LastFront DEF Top
  <2>. QED
    BY <1>1, <1>2, <2>1, FrameFields DEF FramesInv, OneGuard
<1>8. FramesInv'
  <2>1. CASE fromSource
    <3>1. f.keyed = TRUE /\ tagStack' = Append(tagStack, Top.of)
      BY <1>3, <1>4, <1>5, <2>1
    <3>. QED
      BY <1>1, <1>2, <1>4, <1>5, <3>1, GuardIsPushed
  <2>2. CASE ~fromSource
    <3>1. f.keyed = Top.keyed /\ tagStack' = tagStack
      BY <1>3, <1>4, <1>5, <1>7, <2>2
    <3>. QED
      BY <1>1, <1>2, <1>4, <1>5, <1>6, <3>1, TopMovesOn DEF IsHandler
  <2>. QED
    BY <2>1, <2>2
<1>9. frames' \in Seq(Frame)
  BY <1>1, <1>2, <1>4, <1>5, ReplaceLast
<1>10. tagStack' \in Seq(Entity) /\ populations' \in [Entity -> Nat]
  BY <1>1, <1>2, <1>5 DEF TypeOK
<1>11. TypeOK'
  BY <1>1, <1>9, <1>10 DEF TypeOK, PushGuard, task
<1>12. WaitsWithoutGuard'
  BY <1>1 DEF WaitsWithoutGuard, PushGuard
<1>. QED
  BY <1>8, <1>11, <1>12 DEF ContextInv

\* Exceptions: thrown, caught inside the stack, by PopulateAll or by the task.
LEMMA ThrowKeepsInv ==
  ASSUME ContextInv, Throw \/ Catch \/ CatchInPopulateAll \/ Fail
  PROVE  ContextInv'
<1>1. TypeOK /\ FramesInv /\ WaitsWithoutGuard /\ frames \in Seq(Frame)
  BY DEF ContextInv, TypeOK
<1>2. /\ UNCHANGED <<fromSource, visited, cache, nextLabel, writingLabel, tagStack, depth, populateQueue,
                     trapFile, home>>
      /\ raised' \in BOOLEAN /\ (thrown' = thrown \/ thrown' = TRUE)
  BY DEF Throw, Catch, CatchInPopulateAll, Fail, task
<1>3. WaitsWithoutGuard'
  BY <1>1, <1>2 DEF WaitsWithoutGuard
<1>4. CASE Throw
  <2>1. UNCHANGED <<phase, frames>>
    BY <1>4 DEF Throw, task
  <2>2. FramesInv'
    BY <1>1, <1>2, <2>1 DEF FramesInv, FramesOfEntities, DepthCountsScopes, Scopes, LabelOnTop,
       InLabel, OneGuard, HandlerAtBottom, IsHandler
  <2>3. TypeOK'
    BY <1>1, <1>2, <2>1 DEF TypeOK, trapFile
  <2>. QED
    BY <1>3, <2>2, <2>3 DEF ContextInv
<1>5. CASE Catch
  <2>1. frames # <<>> /\ Tried(Top) /\ UNCHANGED phase
    BY <1>5 DEF Catch, task
  <2>2. /\ Top \in Frame /\ Top.at \in {"populate", "member", "comments"}
        /\ Len(frames) \in DOMAIN frames /\ Top = frames[Len(frames)]
        /\ Top.at = "populate" => Top.of \in Entity
    BY <1>1, <2>1, TopIsFrame, LastFront DEF Tried, Top
  <2>. DEFINE f == [Top EXCEPT !.at = "report", !.left = ErrorLocation, !.defers = FALSE]
  <2>3. f \in Frame /\ f.at = "report" /\ f.of = Top.of /\ f.scoped = Top.scoped
        /\ f.keyed = Top.keyed
    BY <2>2, Places, Constants DEF Frame
  <2>4. frames' = WithTop(frames, f)
    BY <1>5 DEF Catch
  <2>. HIDE DEF f
  <2>5. ~writingLabel
    BY <1>1, <2>1, <2>2, NotInLabel
  <2>6. ~IsHandler(f)
    <3>1. CASE Top.at = "populate"
      BY <2>2, <2>3, <3>1, Constants DEF IsHandler
    <3>2. CASE Top.at \in {"member", "comments"}
      <4>1. phase \in {"extract", "comments"}
        BY <1>1, <2>2, <3>2 DEF FramesInv, HandlerAtBottom
      <4>. QED
        BY <4>1 DEF IsHandler
    <3>. QED
      BY <2>2, <3>1, <3>2
  <2>7. FramesInv'
    BY <1>1, <1>2, <2>1, <2>2, <2>3, <2>4, <2>5, <2>6, TopMovesOn
  <2>8. frames' \in Seq(Frame)
    BY <1>1, <2>1, <2>3, <2>4, ReplaceLast
  <2>9. TypeOK'
    BY <1>1, <1>2, <2>1, <2>8 DEF TypeOK, trapFile
  <2>. QED
    BY <1>3, <2>7, <2>9 DEF ContextInv
<1>6. CASE CatchInPopulateAll
  <2>. DEFINE f == Call("report", NoEntity, ErrorLocation)
  <2>1. f \in Frame /\ f.at = "report" /\ f.scoped = FALSE /\ f.keyed = FALSE
    BY Places, Constants DEF Call, Frame
  <2>2. frames = <<>> /\ frames' = <<f>> /\ UNCHANGED phase
    BY <1>6 DEF CatchInPopulateAll, HandlerOfPopulateAll, task
  <2>. HIDE DEF f
  <2>3. FramesInv'
    BY <1>1, <1>2, <2>1, <2>2, StackStarts
  <2>4. frames' \in Seq(Frame)
    BY <2>1, <2>2
  <2>5. TypeOK'
    BY <1>1, <1>2, <2>2, <2>4 DEF TypeOK, trapFile
  <2>. QED
    BY <1>3, <2>3, <2>5 DEF ContextInv
<1>7. CASE Fail
  <2>1. frames' = <<>> /\ phase' = "failed"
    BY <1>7 DEF Fail
  <2>2. depth = 0 /\ tagStack = <<>> /\ ~writingLabel
    <3>1. CASE frames = <<>>
      <4>1. DOMAIN frames = {}
        BY <3>1
      <4>2. Scopes = {}
        BY <4>1 DEF Scopes
      <4>3. depth = 0
        BY <1>1, <4>2, FS_EmptySet DEF FramesInv, DepthCountsScopes
      <4>. QED
        BY <1>1, <4>1, <4>3 DEF FramesInv, LabelOnTop, InLabel, OneGuard
    <3>2. CASE frames # <<>> /\ IsHandler(Top)
      <4>1. /\ Len(frames) \in DOMAIN frames /\ Top = frames[Len(frames)]
            /\ DOMAIN frames = 1 .. Len(frames)
        <5>1. Len(frames) \in Nat /\ Len(frames) >= 1 /\ DOMAIN frames = 1 .. Len(frames)
              /\ Top = frames[Len(frames)]
          BY <1>1, <3>2, LastFront DEF Top
        <5>. QED
          BY <5>1
      <4>2. Len(frames) = 1 /\ ~frames[1].scoped /\ ~frames[1].keyed
        BY <1>1, <3>2, <4>1 DEF FramesInv, HandlerAtBottom
      <4>3. DOMAIN frames = {1} /\ frames[1].at = "report"
        BY <3>2, <4>1, <4>2 DEF IsHandler
      <4>4. Scopes = {}
        BY <4>2, <4>3 DEF Scopes
      <4>5. depth = 0
        BY <1>1, <4>4, FS_EmptySet DEF FramesInv, DepthCountsScopes
      <4>6. ~writingLabel
        BY <1>1, <4>3 DEF FramesInv, LabelOnTop, InLabel
      <4>7. tagStack # <<>> => \E i \in {1} : frames[i].keyed
        BY <1>1, <4>3 DEF FramesInv, OneGuard
      <4>8. tagStack = <<>>
        BY <4>2, <4>7
      <4>. QED
        BY <4>5, <4>6, <4>8
    <3>. QED
      BY <1>7, <3>1, <3>2 DEF Fail
  <2>3. DOMAIN frames' = {} /\ frames' \in Seq(Frame)
    BY <2>1
  <2>4. FramesInv'
    <3>1. Scopes' = {}
      BY <2>3 DEF Scopes
    <3>2. DepthCountsScopes'
      BY <1>2, <2>2, <3>1, FS_EmptySet DEF DepthCountsScopes
    <3>3. UNCHANGED <<writingLabel, tagStack>>
      BY <1>2
    <3>. QED
      BY <2>2, <2>3, <3>2, <3>3 DEF FramesInv, FramesOfEntities, LabelOnTop, InLabel, OneGuard,
         HandlerAtBottom
  <2>5. TypeOK'
    BY <1>1, <1>2, <2>1, <2>3 DEF TypeOK, trapFile
  <2>. QED
    BY <1>3, <2>4, <2>5 DEF ContextInv
<1>. QED
  BY <1>4, <1>5, <1>6, <1>7

\* The task moves on while no entity is being worked on.
LEMMA TaskKeepsInv ==
  ASSUME ContextInv,
         VisitMember \/ MembersVisited \/ Populated \/ CommentsExtracted \/ AllPopulated
  PROVE  ContextInv'
<1>1. /\ TypeOK /\ FramesInv /\ WaitsWithoutGuard /\ frames = <<>>
      /\ UNCHANGED <<fromSource, raised, cache, nextLabel, writingLabel, tagStack, depth,
                    populateQueue, trapFile, home, thrown>>
  BY DEF ContextInv, VisitMember, MembersVisited, Populated, CommentsExtracted, AllPopulated, Idle
<1>2. WaitsWithoutGuard'
  BY <1>1 DEF WaitsWithoutGuard
<1>3. ASSUME NEW place \in {"member", "comments"}, NEW todo \in SUBSET Entity,
             frames' = <<Call(place, NoEntity, todo)>>, phase' \in {"extract", "comments"}
      PROVE  FramesInv' /\ frames' \in Seq(Frame)
  <2>. DEFINE f == Call(place, NoEntity, todo)
  <2>1. f \in Frame /\ f.at = place /\ f.scoped = FALSE /\ f.keyed = FALSE
    BY Places, Constants DEF Call, Frame
  <2>2. frames' = <<f>>
    BY <1>3
  <2>. HIDE DEF f
  <2>3. FramesInv'
    BY <1>1, <1>3, <2>1, <2>2, StackStarts
  <2>4. frames' \in Seq(Frame)
    BY <2>1, <2>2
  <2>. QED
    BY <2>3, <2>4
<1>4. CASE VisitMember
  <2>1. /\ visited' \in 0 .. Len(Members) /\ visited + 1 \in 1 .. Len(Members)
        /\ UNCHANGED phase /\ phase = "extract"
        /\ frames' = <<Call("member", NoEntity, Members[visited + 1])>>
    BY <1>1, <1>4, Constants DEF VisitMember, TypeOK
  <2>2. Members[visited + 1] \in SUBSET Entity
    BY <2>1, Constants
  <2>3. FramesInv' /\ frames' \in Seq(Frame)
    BY <1>3, <2>1, <2>2
  <2>4. TypeOK'
    BY <1>1, <2>1, <2>3 DEF TypeOK, trapFile
  <2>. QED
    BY <1>2, <2>3, <2>4 DEF ContextInv
<1>5. CASE Populated /\ fromSource
  <2>1. UNCHANGED visited /\ phase' = "comments"
        /\ frames' = <<Call("comments", NoEntity, Comments)>>
    BY <1>5 DEF Populated
  <2>2. FramesInv' /\ frames' \in Seq(Frame)
    BY <1>3, <2>1, Constants
  <2>3. TypeOK'
    BY <1>1, <2>1, <2>2 DEF TypeOK, trapFile
  <2>. QED
    BY <1>2, <2>2, <2>3 DEF ContextInv
<1>6. CASE MembersVisited \/ (Populated /\ ~fromSource) \/ CommentsExtracted \/ AllPopulated
  <2>1. UNCHANGED <<visited, frames>> /\ phase' \in {"populate", "populateRest", "done"}
    BY <1>6 DEF MembersVisited, Populated, CommentsExtracted, AllPopulated
  <2>2. FramesInv'
    BY <1>1, <2>1, StackStaysEmpty
  <2>3. TypeOK'
    BY <1>1, <2>1 DEF TypeOK, trapFile
  <2>. QED
    BY <1>2, <2>2, <2>3 DEF ContextInv
<1>. QED
  BY <1>4, <1>5, <1>6

\* The frame in which a queued action starts.
LEMMA StartFrame ==
  ASSUME NEW a \in Action
  PROVE  /\ Start(a) \in Frame /\ Start(a).of = a.of /\ Start(a).scoped = FALSE
         /\ Start(a).at \in {"cached", "defined", "later", "location", "populate"}
         /\ Start(a).at = "location" => a.do = "perform" /\ Behaviour[a.of] = "PushesLabel"
<1>1. /\ a.of \in Entity /\ a.label \in Nat
      /\ a.do \in {"define", "populate", "perform", "later"}
  BY DEF Action
<1>2. /\ Uses[a.of]["later"] \in SUBSET Entity /\ Uses[a.of]["location"] \in SUBSET Entity
      /\ Uses[a.of]["populate"] \in SUBSET Entity
  BY <1>1, Constants DEF Section
<1>3. CASE a.do = "define"
  BY <1>1, <1>3, Places DEF Start, Call, Frame
<1>4. CASE a.do = "populate"
  BY <1>1, <1>4, Places DEF Start, Call, Frame
<1>5. CASE a.do = "later"
  BY <1>1, <1>2, <1>5, Places DEF Start, Call, Frame
<1>6. CASE a.do = "perform"
  <2>1. CASE Behaviour[a.of] = "PushesLabel"
    BY <1>1, <1>2, <1>6, <2>1, Places DEF Start, Call, Frame
  <2>2. CASE Behaviour[a.of] # "PushesLabel"
    BY <1>1, <1>2, <1>6, <2>2, Places DEF Start, Call, Frame
  <2>. QED
    BY <2>1, <2>2
<1>. QED
  BY <1>1, <1>3, <1>4, <1>5, <1>6

\* One round of PopulateAll.
LEMMA PopulateNextKeepsInv ==
  ASSUME ContextInv, PopulateNext
  PROVE  ContextInv'
<1>. DEFINE a == Head(populateQueue)
            keyed == a.guard # NoEntity /\ fromSource
            f == [Start(a) EXCEPT !.keyed = keyed]
            n == Len(populateQueue)
<1>1. /\ TypeOK /\ FramesInv /\ WaitsWithoutGuard /\ frames = <<>>
      /\ populateQueue # <<>> /\ populateQueue \in Seq(Action)
  BY DEF ContextInv, PopulateNext, Idle, TypeOK
<1>2. /\ a \in Action /\ a = populateQueue[1] /\ n \in Nat /\ n >= 1
      /\ DOMAIN populateQueue = 1 .. n
      /\ Tail(populateQueue) \in Seq(Action) /\ DOMAIN Tail(populateQueue) = 1 .. n - 1
      /\ \A i \in 1 .. n - 1 : Tail(populateQueue)[i] = populateQueue[i + 1]
  BY <1>1
<1>3. a.do = "perform" => ~keyed
  BY <1>1, <1>2 DEF WaitsWithoutGuard
<1>4. WaitsWithoutGuard'
  <2>1. populateQueue' = Tail(populateQueue)
    BY DEF PopulateNext
  <2>2. ASSUME NEW i \in 1 .. n - 1
        PROVE  populateQueue'[i].do = "perform" => populateQueue'[i].guard = NoEntity
    <3>1. n \in Nat /\ i \in 1 .. n - 1
      BY <1>2
    <3>2. i + 1 \in DOMAIN populateQueue /\ populateQueue'[i] = populateQueue[i + 1]
      BY <3>1, <2>1, <1>2
    <3>. QED
      BY <3>2, <1>1 DEF WaitsWithoutGuard
  <2>. QED
    BY <2>1, <2>2, <1>2 DEF WaitsWithoutGuard
<1>5. a.of \in Entity /\ a.guard \in Entity \cup {NoEntity}
  BY <1>2 DEF Action
<1>6. /\ Start(a) \in Frame /\ Start(a).of = a.of /\ Start(a).scoped = FALSE
      /\ Start(a).at \in {"cached", "defined", "later", "location", "populate"}
      /\ Start(a).at = "location" => a.do = "perform" /\ Behaviour[a.of] = "PushesLabel"
  <2>. HIDE DEF a
  <2>. QED
    BY <1>2, StartFrame
<1>7. /\ frames' = <<f>> /\ populateQueue' = Tail(populateQueue)
      /\ tagStack' = IF keyed THEN Append(tagStack, a.guard) ELSE tagStack
      /\ UNCHANGED <<fromSource, phase, visited, raised, cache, nextLabel, writingLabel, depth, definitions, home, thrown>>
  BY DEF PopulateNext, task
<1>8. populations' \in [Entity -> Nat]
  <2>1. \/ populations' = [populations EXCEPT ![a.of] = @ + 1]
        \/ populations' = populations
    BY DEF PopulateNext
  <2>2. populations \in [Entity -> Nat]
    BY <1>1 DEF TypeOK
  <2>. HIDE DEF a
  <2>. QED
    BY <1>5, <2>1, <2>2
<1>9. keyed \in BOOLEAN
  OBVIOUS
<1>. HIDE DEF a, keyed
<1>10. f \in Frame /\ f.of = a.of /\ f.scoped = FALSE /\ f.keyed = keyed /\ f.at = Start(a).at
  BY <1>6, <1>9 DEF Frame
<1>. HIDE DEF f
<1>11. tagStack = <<>>
  <2>1. DOMAIN frames = {}
    BY <1>1
  <2>. QED
    BY <1>1, <2>1 DEF FramesInv, OneGuard
<1>12. keyed => a.guard \in Entity
  BY <1>5 DEF keyed
<1>13. IF keyed THEN \E e \in Entity : tagStack' = <<e>> ELSE UNCHANGED tagStack
  BY <1>7, <1>11, <1>12
<1>14. FramesInv'
  BY <1>1, <1>3, <1>5, <1>6, <1>7, <1>10, <1>13, StackStarts
<1>15. frames' \in Seq(Frame) /\ tagStack' \in Seq(Entity)
  BY <1>7, <1>10, <1>11, <1>12
<1>16. TypeOK'
  BY <1>1, <1>2, <1>7, <1>8, <1>15 DEF TypeOK
<1>. QED
  BY <1>4, <1>14, <1>16 DEF ContextInv

\* ContextInv is inductive.
LEMMA InitHasInv ==
  ASSUME Init
  PROVE  ContextInv
<1>1. DOMAIN frames = {} /\ frames = <<>> /\ populateQueue = <<>> /\ DOMAIN populateQueue = {}
  BY DEF Init
<1>2. Scopes = {}
  BY <1>1 DEF Scopes
<1>3. FramesInv
  BY <1>1, <1>2, FS_EmptySet DEF Init, FramesInv, FramesOfEntities, DepthCountsScopes, LabelOnTop,
     InLabel, OneGuard, HandlerAtBottom
<1>4. WaitsWithoutGuard
  BY <1>1 DEF WaitsWithoutGuard
<1>5. TypeOK
  <2>1. <<>> \in Seq(Entity) /\ <<>> \in Seq(Frame) /\ <<>> \in Seq(Action)
    OBVIOUS
  <2>2. home \in [Entity -> Seq(Entity)]
    BY <2>1 DEF Init
  <2>3. frames \in Seq(Frame) /\ tagStack \in Seq(Entity) /\ populateQueue \in Seq(Action)
    BY <2>1 DEF Init
  <2>4. visited \in 0 .. Len(Members) /\ depth \in 0 .. MaxDepth
    BY Constants DEF Init
  <2>5. /\ cache \in [Entity -> Nat] /\ definitions \in [Entity -> Nat]
        /\ populations \in [Entity -> Nat]
    BY DEF Init
  <2>. QED
    BY <2>2, <2>3, <2>4, <2>5 DEF Init, TypeOK
<1>. QED
  BY <1>3, <1>4, <1>5 DEF ContextInv

LEMMA StepKeepsInv ==
  ASSUME ContextInv, [Next]_vars
  PROVE  ContextInv'
<1>1. CASE UNCHANGED vars
  BY <1>1 DEF vars, ContextInv, TypeOK, FramesInv, WaitsWithoutGuard, FramesOfEntities,
     DepthCountsScopes, Scopes, LabelOnTop, InLabel, OneGuard, HandlerAtBottom, IsHandler
<1>2. CASE Next
  BY <1>2, CreateKeepsInv, LeaveKeepsInv, ConstructKeepsInv, LabelKeepsInv, PopulateKeepsInv,
     GuardKeepsInv, ThrowKeepsInv, TaskKeepsInv, PopulateNextKeepsInv DEF Next
<1>. QED
  BY <1>1, <1>2

-----------------------------------------------------------------------------
(* Theorems.                                                               *)

\* ContextInv holds always: what Context.Leave and the guards dispose of
\* matches what the frames of the stack hold.
THEOREM Invariant == Spec => []ContextInv
<1>1. Init => ContextInv
  BY InitHasInv
<1>2. ContextInv /\ [Next]_vars => ContextInv'
  BY StepKeepsInv
<1>. QED
  BY <1>1, <1>2, PTL DEF Spec

\* Every variable keeps its type; in particular currentRecursiveDepth stays
\* between 0 and maxRecursiveDepth, whatever is thrown.
THEOREM TypeCorrect == Spec => []TypeOK
<1>1. ContextInv => TypeOK
  BY DEF ContextInv
<1>. QED
  BY <1>1, Invariant, PTL

\* Between two declarations or queued actions nothing is left over: the depth
\* is 0, no duplication guard is active, no label is being written.
THEOREM NothingLeftOver == Spec => []Balanced
<1>1. ContextInv => Balanced
  <2>1. SUFFICES ASSUME ContextInv, frames = <<>>
                 PROVE  depth = 0 /\ tagStack = <<>> /\ ~writingLabel
    BY DEF Balanced
  <2>2. DOMAIN frames = {} /\ FramesInv
    BY <2>1 DEF ContextInv
  <2>3. Scopes = {}
    BY <2>2 DEF Scopes
  <2>4. depth = 0
    BY <2>2, <2>3, FS_EmptySet DEF FramesInv, DepthCountsScopes
  <2>. QED
    BY <2>2, <2>4 DEF FramesInv, LabelOnTop, InLabel, OneGuard
<1>. QED
  BY <1>1, Invariant, PTL

\* While a label is written, the top of the stack is the label or constructs.
LEMMA TopInLabel ==
  ASSUME ContextInv, InLabel
  PROVE  /\ writingLabel /\ frames # <<>> /\ frames \in Seq(Frame)
         /\ Top.at \in {"id", "new", "cached", "defined"}
         /\ Top.at # "id" => ~Top.keyed
<1>1. FramesInv /\ frames \in Seq(Frame)
  BY DEF ContextInv, TypeOK
<1>2. PICK i \in DOMAIN frames : frames[i].at = "id"
  BY DEF InLabel
<1>3. frames # <<>>
  BY <1>2
<1>4. /\ Len(frames) \in Nat /\ DOMAIN frames = 1 .. Len(frames) /\ Len(frames) >= 1
      /\ Top = frames[Len(frames)]
  BY <1>1, <1>3, LastFront DEF Top
<1>5. Len(frames) \in DOMAIN frames /\ (i = Len(frames) \/ Len(frames) > i)
  BY <1>2, <1>4
<1>. QED
  BY <1>1, <1>2, <1>3, <1>4, <1>5 DEF FramesInv, LabelOnTop

\* While the id of an entity is written, no definition, tuple, .push or .pop
\* reaches the trap file (Context.WritingLabel).
THEOREM LabelsAreUnbroken == Spec => NothingWrittenInLabel
<1>1. ASSUME ContextInv, ContextInv', [Next]_vars, InLabel, InLabel'
      PROVE  UNCHANGED <<trapFile, tagStack>>
  <2>1. /\ writingLabel /\ frames # <<>> /\ frames \in Seq(Frame)
        /\ Top.at \in {"id", "new", "cached", "defined"}
        /\ Top.at # "id" => ~Top.keyed
    BY <1>1, TopInLabel
  <2>2. writingLabel'
    BY <1>1 DEF ContextInv, FramesInv, LabelOnTop, InLabel
  <2>3. Leave /\ Top.at # "id" => UNCHANGED tagStack
    BY <2>1 DEF Leave
  <2>4. CASE UNCHANGED vars
    BY <2>4 DEF vars, trapFile
  <2>5. ASSUME NEW e \in Entity, CreateHit(e) \/ CreateTooDeep(e) \/ CreateNew(e)
        PROVE  UNCHANGED <<trapFile, tagStack>>
    BY <2>5 DEF CreateHit, CreateTooDeep, CreateNew
  <2>6. CASE ConstructKnown \/ PopulateNot \/ PopulateAfterLabel \/ Propagate
    BY <2>3, <2>6 DEF ConstructKnown, PopulateNot, PopulateAfterLabel, Propagate
  <2>7. CASE Construct \/ BeginLabel \/ DefineLabelLater \/ DeferPart \/ Throw
    BY <2>7 DEF Construct, BeginLabel, DefineLabelLater, DeferPart, Throw, trapFile
  <2>8. CASE EndLabel \/ PopulateDeferred \/ PopulateNow
    BY <2>1, <2>2, <2>8 DEF EndLabel, PopulateDeferred, PopulateNow
  <2>9. CASE Complained \/ PushGuard \/ Return \/ Catch
    BY <2>1, <2>9 DEF Complained, PushGuard, Return, Catch, Tried
  <2>10. CASE Fail
    BY <2>1, <2>10 DEF Fail, IsHandler
  <2>11. CASE CatchInPopulateAll \/ VisitMember \/ MembersVisited \/ PopulateNext \/ Populated
                \/ CommentsExtracted \/ AllPopulated
    BY <2>1, <2>11 DEF CatchInPopulateAll, VisitMember, MembersVisited, PopulateNext, Populated,
       CommentsExtracted, AllPopulated, Idle
  <2>. QED
    BY <1>1, <2>4, <2>5, <2>6, <2>7, <2>8, <2>9, <2>10, <2>11 DEF Next
<1>2. ContextInv /\ ContextInv' /\ [Next]_vars
        => [InLabel /\ InLabel' => UNCHANGED <<trapFile, tagStack>>]_vars
  BY <1>1
<1>. QED
  BY <1>2, Invariant, PTL DEF Spec, NothingWrittenInLabel

\* What must not be extracted between .push and .pop starts to be populated
\* outside, and no guard starts inside another (Context.Populate,
\* WithDuplicationGuard).
THEOREM GuardsDoNotNest == Spec => NoLabelOutsideGuards
<1>. DEFINE Good(e) == /\ Behaviour[e] = "NoLabel" => tagStack' = <<>>
                       /\ Behaviour[e] = "PushesLabel" => tagStack' \in {<<>>, <<e>>}
<1>1. ASSUME ContextInv, [Next]_vars, NEW e \in Entity, populations'[e] # populations[e]
      PROVE  Good(e)
  <2>1. TypeOK /\ FramesInv /\ WaitsWithoutGuard /\ populations \in [Entity -> Nat]
    BY <1>1 DEF ContextInv, TypeOK
  <2>2. ASSUME Top.of \in Entity, Begin(Top.of), ~MustWait(Top.of), UNCHANGED tagStack
        PROVE  Good(e)
    <3>1. Behaviour[Top.of] # "PushesLabel" /\ populations' = [populations EXCEPT ![Top.of] = @ + 1]
      BY <1>1, <2>2 DEF Begin
    <3>2. e = Top.of
      BY <1>1, <2>1, <3>1
    <3>. QED
      BY <2>2, <3>1, <3>2 DEF MustWait
  <2>3. CASE PopulateNow
    <3>1. frames # <<>> /\ Top.at = "defined" /\ ~MustWait(Top.of) /\ UNCHANGED tagStack
          /\ (Unguarded(Top.of) => UNCHANGED populations)
          /\ (~Unguarded(Top.of) => Begin(Top.of))
      BY <2>3 DEF PopulateNow, Running
    <3>2. Top.of \in Entity
      BY <2>1, <3>1, TopIsFrame
    <3>. QED
      BY <1>1, <2>2, <3>1, <3>2
  <2>4. CASE Complained
    <3>1. frames # <<>> /\ Top.at = "complain" /\ Begin(Top.of) /\ UNCHANGED tagStack
      BY <2>4 DEF Complained, Running
    <3>2. Top.of \in Entity /\ frames \in Seq(Frame)
      BY <2>1, <3>1, TopIsFrame
    <3>3. Len(frames) \in DOMAIN frames /\ Top = frames[Len(frames)]
      <4>1. Len(frames) \in Nat /\ Len(frames) >= 1 /\ DOMAIN frames = 1 .. Len(frames)
            /\ Top = frames[Len(frames)]
        BY <3>1, <3>2, LastFront DEF Top
      <4>. QED
        BY <4>1
    <3>4. ~MustWait(Top.of)
      BY <2>1, <3>1, <3>3 DEF FramesInv, OneGuard, MustWait
    <3>. QED
      BY <2>2, <3>1, <3>2, <3>4
  <2>5. CASE PushGuard
    <3>1. /\ frames # <<>> /\ Top.at = "location"
          /\ populations' = [populations EXCEPT ![Top.of] = @ + 1]
          /\ tagStack' = IF fromSource THEN Append(tagStack, Top.of) ELSE tagStack
      BY <2>5 DEF PushGuard, Running
    <3>2. Top.of \in Entity /\ frames \in Seq(Frame)
      BY <2>1, <3>1, TopIsFrame
    <3>3. e = Top.of
      BY <1>1, <2>1, <3>1, <3>2
    <3>4. /\ Len(frames) \in DOMAIN frames /\ Top = frames[Len(frames)]
          /\ \A j \in DOMAIN frames : j <= Len(frames)
      <4>1. Len(frames) \in Nat /\ Len(frames) >= 1 /\ DOMAIN frames = 1 .. Len(frames)
            /\ Top = frames[Len(frames)]
        BY <3>1, <3>2, LastFront DEF Top
      <4>. QED
        BY <4>1
    <3>5. Behaviour[e] = "PushesLabel" /\ \A j \in DOMAIN frames : ~frames[j].keyed
      BY <2>1, <3>1, <3>3, <3>4 DEF FramesInv, OneGuard
    <3>6. tagStack = <<>>
      BY <2>1, <3>5 DEF FramesInv, OneGuard
    <3>. QED
      BY <3>1, <3>3, <3>5, <3>6
  <2>6. CASE PopulateNext
    <3>. DEFINE a == Head(populateQueue)
    <3>1. /\ frames = <<>> /\ populateQueue # <<>> /\ populateQueue \in Seq(Action)
          /\ a.do = "perform" /\ Behaviour[a.of] # "PushesLabel"
          /\ populations' = [populations EXCEPT ![a.of] = @ + 1]
      BY <1>1, <2>1, <2>6 DEF PopulateNext, Idle, TypeOK
    <3>2. a \in Action /\ a = populateQueue[1] /\ 1 \in DOMAIN populateQueue
      BY <3>1
    <3>3. a.guard = NoEntity
      BY <2>1, <3>1, <3>2 DEF WaitsWithoutGuard
    <3>4. tagStack' = tagStack
      BY <2>6, <3>3 DEF PopulateNext
    <3>5. tagStack = <<>>
      <4>1. DOMAIN frames = {}
        BY <3>1
      <4>. QED
        BY <2>1, <4>1 DEF FramesInv, OneGuard
    <3>. QED
      BY <3>4, <3>5
  <2>7. PopulateNow \/ Complained \/ PushGuard \/ PopulateNext \/ UNCHANGED populations
    <3>1. CASE UNCHANGED vars
      BY <3>1 DEF vars
    <3>2. CASE Next
      BY <3>2 DEF Next, CreateHit, CreateTooDeep, CreateNew, ConstructKnown, Construct, BeginLabel,
         DefineLabelLater, EndLabel, PopulateNot, PopulateAfterLabel, PopulateDeferred, DeferPart,
         Return, Throw, Catch, Propagate, CatchInPopulateAll, Fail, VisitMember, MembersVisited,
         Populated, CommentsExtracted, AllPopulated, trapFile
    <3>. QED
      BY <1>1, <3>1, <3>2
  <2>. QED
    BY <1>1, <2>3, <2>4, <2>5, <2>6, <2>7
<1>2. ContextInv /\ [Next]_vars
        => [\A e \in Entity : populations'[e] # populations[e] => Good(e)]_vars
  BY <1>1
<1>. QED
  BY <1>2, Invariant, PTL DEF Spec, NoLabelOutsideGuards
-----------------------------------------------------------------------------
(* Counting the elements of a sequence that are in a set.                  *)

Bit(b) == IF b THEN 1 ELSE 0

LEMMA CountIsNat ==
  ASSUME NEW S, NEW s \in Seq(S), NEW P
  PROVE  IsFiniteSet({i \in DOMAIN s : s[i] \in P}) /\ CountIn(s, P) \in Nat
<1>1. DOMAIN s = 1 .. Len(s) /\ Len(s) \in Nat
  OBVIOUS
<1>2. IsFiniteSet(1 .. Len(s))
  BY <1>1, FS_Interval
<1>3. IsFiniteSet({i \in DOMAIN s : s[i] \in P})
  BY <1>1, <1>2, FS_Subset
<1>. QED
  BY <1>3, FS_CardinalityType DEF CountIn

LEMMA CountEmpty ==
  ASSUME NEW P
  PROVE  CountIn(<<>>, P) = 0
<1>1. {i \in DOMAIN <<>> : <<>>[i] \in P} = {}
  OBVIOUS
<1>. QED
  BY <1>1, FS_EmptySet DEF CountIn

\* Two sequences that agree up to n, of which one goes on with x.
LEMMA CountOneMore ==
  ASSUME NEW S, NEW s \in Seq(S), NEW t \in Seq(S), NEW P,
         Len(t) = Len(s) + 1, \A i \in 1 .. Len(s) : t[i] = s[i]
  PROVE  CountIn(t, P) = CountIn(s, P) + Bit(t[Len(s) + 1] \in P)
<1>. DEFINE n == Len(s)
            A == {i \in DOMAIN s : s[i] \in P}
            B == {i \in DOMAIN t : t[i] \in P}
<1>1. n \in Nat /\ DOMAIN s = 1 .. n /\ DOMAIN t = 1 .. n + 1
  OBVIOUS
<1>2. n + 1 \notin A
  BY <1>1
<1>3. /\ IsFiniteSet(A) /\ CountIn(s, P) \in Nat
      /\ CountIn(s, P) = Cardinality(A) /\ CountIn(t, P) = Cardinality(B)
  BY CountIsNat DEF CountIn
<1>4. CASE t[n + 1] \in P
  <2>1. B = A \cup {n + 1}
    BY <1>1, <1>4
  <2>. HIDE DEF A, B
  <2>2. Cardinality(A \cup {n + 1}) = Cardinality(A) + 1
    BY <1>2, <1>3, FS_AddElement
  <2>. QED
    BY <1>3, <1>4, <2>1, <2>2 DEF Bit
<1>5. CASE t[n + 1] \notin P
  <2>1. B = A
    BY <1>1, <1>5
  <2>2. CountIn(t, P) = CountIn(s, P)
    BY <1>3, <2>1
  <2>. QED
    BY <1>3, <1>5, <2>2 DEF Bit
<1>. QED
  BY <1>4, <1>5

LEMMA CountAppend ==
  ASSUME NEW S, NEW s \in Seq(S), NEW x \in S, NEW P
  PROVE  CountIn(Append(s, x), P) = CountIn(s, P) + Bit(x \in P)
<1>1. /\ Append(s, x) \in Seq(S) /\ Len(Append(s, x)) = Len(s) + 1
      /\ \A i \in 1 .. Len(s) : Append(s, x)[i] = s[i]
      /\ Append(s, x)[Len(s) + 1] = x
  OBVIOUS
<1>. QED
  BY <1>1, CountOneMore

LEMMA CountFront ==
  ASSUME NEW S, NEW s \in Seq(S), s # <<>>, NEW P
  PROVE  CountIn(s, P) = CountIn(Front(s), P) + Bit(Last(s) \in P)
<1>1. /\ Front(s) \in Seq(S) /\ Len(s) = Len(Front(s)) + 1
      /\ \A i \in 1 .. Len(Front(s)) : s[i] = Front(s)[i]
      /\ Last(s) = s[Len(Front(s)) + 1]
  BY LastFront
<1>. QED
  BY <1>1, CountOneMore

LEMMA CountWithTop ==
  ASSUME NEW S, NEW s \in Seq(S), s # <<>>, NEW f \in S, NEW P
  PROVE  CountIn(WithTop(s, f), P) = CountIn(Front(s), P) + Bit(f \in P)
<1>. DEFINE t == WithTop(s, f)
<1>1. /\ Front(s) \in Seq(S) /\ Len(s) = Len(Front(s)) + 1
      /\ \A i \in 1 .. Len(Front(s)) : s[i] = Front(s)[i]
  BY LastFront
<1>2. /\ t \in Seq(S) /\ Len(t) = Len(s)
      /\ \A i \in 1 .. Len(s) - 1 : t[i] = s[i]
      /\ t[Len(s)] = f
  BY ReplaceLast
<1>. HIDE DEF t
<1>3. Len(s) - 1 = Len(Front(s)) /\ Len(Front(s)) \in Nat
  BY <1>1
<1>4. \A i \in 1 .. Len(Front(s)) : t[i] = Front(s)[i]
  BY <1>1, <1>2, <1>3
<1>5. CountIn(t, P) = CountIn(Front(s), P) + Bit(t[Len(Front(s)) + 1] \in P)
  BY <1>1, <1>2, <1>4, CountOneMore
<1>. QED
  BY <1>1, <1>2, <1>5 DEF t

\* The first element, and the rest whose places are one lower.
LEMMA CountTail ==
  ASSUME NEW S, NEW s \in Seq(S), s # <<>>, NEW P
  PROVE  CountIn(s, P) = CountIn(Tail(s), P) + Bit(Head(s) \in P)
<1>. DEFINE n == Len(s)
            A == {i \in DOMAIN Tail(s) : Tail(s)[i] \in P}
            B == {i \in DOMAIN s : s[i] \in P} \ {1}
            up == [i \in A |-> i + 1]
<1>1. n \in Nat /\ n >= 1 /\ DOMAIN s = 1 .. n /\ Head(s) = s[1]
  OBVIOUS
<1>2. Tail(s) \in Seq(S) /\ Len(Tail(s)) = n - 1 /\ DOMAIN Tail(s) = 1 .. n - 1
      /\ \A i \in 1 .. n - 1 : Tail(s)[i] = s[i + 1]
  BY HeadTailProperties
<1>3. IsFiniteSet(A) /\ IsFiniteSet({i \in DOMAIN s : s[i] \in P})
  BY <1>2, CountIsNat
<1>4. up \in Bijection(A, B)
  <2>1. up \in [A -> B]
    BY <1>1, <1>2
  <2>2. \A i, j \in A : up[i] = up[j] => i = j
    BY <1>2
  <2>3. ASSUME NEW j \in B PROVE \E i \in A : up[i] = j
    <3>1. j \in 2 .. n /\ s[j] \in P
      BY <1>1
    <3>2. j - 1 \in 1 .. n - 1 /\ Tail(s)[j - 1] = s[j]
      BY <1>1, <1>2, <3>1
    <3>3. j - 1 \in A /\ up[j - 1] = j
      BY <1>2, <3>1, <3>2
    <3>. QED
      BY <3>3
  <2>. QED
    BY <2>1, <2>2, <2>3, Fun_IsBij
<1>5. Cardinality(A) = Cardinality(B)
  BY <1>3, <1>4, FS_Bijection DEF ExistsBijection
<1>6. IsFiniteSet(B) /\ 1 \notin B
  BY <1>3, FS_Subset
<1>7. /\ CountIn(Tail(s), P) = Cardinality(A) /\ CountIn(Tail(s), P) \in Nat
      /\ CountIn(s, P) = Cardinality({i \in DOMAIN s : s[i] \in P})
  BY <1>2, CountIsNat DEF CountIn
<1>8. CASE s[1] \in P
  <2>1. {i \in DOMAIN s : s[i] \in P} = B \cup {1}
    BY <1>1, <1>8
  <2>. HIDE DEF A, B
  <2>2. Cardinality(B \cup {1}) = Cardinality(B) + 1
    BY <1>6, FS_AddElement
  <2>. QED
    BY <1>1, <1>5, <1>7, <1>8, <2>1, <2>2 DEF Bit
<1>9. CASE s[1] \notin P
  <2>1. {i \in DOMAIN s : s[i] \in P} = B
    BY <1>1, <1>9
  <2>2. CountIn(s, P) = CountIn(Tail(s), P)
    BY <1>5, <1>7, <2>1
  <2>. QED
    BY <1>1, <1>7, <1>9, <2>2 DEF Bit
<1>. QED
  BY <1>8, <1>9

-----------------------------------------------------------------------------
(* Where labels are defined and populations begun.                         *)

\* What PlacesInv says of one frame.
PlaceOK(f) ==
  /\ f.at = "new" => f.scoped
  /\ f.at \in {"cached", "defined"} => ~raised /\ f.left = {}
  /\ f.at = "cached" /\ ~f.scoped => ~writingLabel

LEMMA TopPlace ==
  ASSUME ContextInv, PlacesInv, frames # <<>>
  PROVE  /\ frames \in Seq(Frame) /\ Top \in Frame /\ PlaceOK(Top) /\ phase # "done"
         /\ Top.at \notin {"member", "comments", "report"} => Top.of \in Entity
         /\ \A i \in 1 .. Len(frames) - 1 : frames[i].at \notin {"cached", "defined"}
<1>1. /\ frames \in Seq(Frame) /\ Top \in Frame
      /\ Top.at \notin {"member", "comments", "report"} => Top.of \in Entity
  BY TopIsFrame DEF ContextInv
<1>2. /\ Len(frames) \in Nat /\ Len(frames) >= 1 /\ DOMAIN frames = 1 .. Len(frames)
      /\ Top = frames[Len(frames)]
  BY <1>1, LastFront DEF Top
<1>3. Len(frames) \in DOMAIN frames
  BY <1>2
<1>4. PlaceOK(Top) /\ phase # "done"
  BY <1>2, <1>3 DEF PlacesInv, PlaceOK
<1>5. ASSUME NEW i \in 1 .. Len(frames) - 1 PROVE frames[i].at \notin {"cached", "defined"}
  <2>1. Len(frames) \in Nat /\ i \in 1 .. Len(frames) - 1
    BY <1>2
  <2>2. i \in 1 .. Len(frames) /\ i # Len(frames)
    BY <2>1
  <2>. QED
    BY <1>2, <2>2 DEF PlacesInv
<1>. QED
  BY <1>1, <1>4, <1>5

\* What the frames below the top have to be while labels are written or an
\* exception is thrown: anything but the places that PlacesInv is about.
LEMMA PlacesBelow ==
  ASSUME ContextInv, PlacesInv, frames # <<>>, NEW i \in 1 .. Len(frames) - 1
  PROVE  /\ frames[i].at = "new" => frames[i].scoped
         /\ frames[i].at \notin {"cached", "defined"}
<1>1. i \in DOMAIN frames /\ frames[i].at \notin {"cached", "defined"}
  <2>1. frames \in Seq(Frame)
    BY TopPlace
  <2>2. Len(frames) \in Nat /\ DOMAIN frames = 1 .. Len(frames)
    BY <2>1
  <2>. QED
    BY <2>2, TopPlace
<1>. QED
  BY <1>1 DEF PlacesInv

LEMMA PlacesTop ==
  ASSUME ContextInv, PlacesInv, frames # <<>>,
         NEW f \in Frame, frames' = WithTop(frames, f), PlaceOK(f)',
         raised' => thrown', phase' = phase
  PROVE  PlacesInv'
<1>1. frames \in Seq(Frame) /\ phase # "done"
  BY TopPlace
<1>2. /\ Len(frames) \in Nat /\ Len(frames) >= 1 /\ DOMAIN frames' = 1 .. Len(frames)
      /\ Len(frames') = Len(frames)
      /\ \A i \in 1 .. Len(frames) - 1 : frames'[i] = frames[i]
      /\ frames'[Len(frames)] = f
  BY <1>1, TopReplaced, ReplaceLast
<1>3. ASSUME NEW i \in 1 .. Len(frames)
      PROVE  /\ frames'[i].at = "new" => frames'[i].scoped
             /\ frames'[i].at \in {"cached", "defined"} =>
                  i = Len(frames) /\ ~raised' /\ frames'[i].left = {}
             /\ frames'[i].at = "cached" /\ ~frames'[i].scoped => ~writingLabel'
  <2>1. CASE i = Len(frames)
    BY <1>2, <2>1 DEF PlaceOK
  <2>2. CASE i # Len(frames)
    <3>0. Len(frames) \in Nat /\ i \in 1 .. Len(frames)
      BY <1>2
    <3>1. i \in 1 .. Len(frames) - 1
      BY <2>2, <3>0
    <3>. QED
      BY <1>2, <3>1, PlacesBelow
  <2>. QED
    BY <2>1, <2>2
<1>. QED
  BY <1>1, <1>2, <1>3 DEF PlacesInv

LEMMA PlacesPush ==
  ASSUME ContextInv, PlacesInv, frames # <<>>,
         NEW h \in Frame, NEW f \in Frame, frames' = Append(WithTop(frames, h), f),
         h.at = Top.at, h.scoped = Top.scoped, Top.left # {},
         f.at = "new", f.scoped, raised' => thrown', phase' = phase
  PROVE  PlacesInv'
<1>1. frames \in Seq(Frame) /\ phase # "done" /\ PlaceOK(Top)
  BY TopPlace
<1>2. h.at \notin {"cached", "defined"} /\ (h.at = "new" => h.scoped)
  BY <1>1 DEF PlaceOK
<1>. DEFINE n == Len(frames)
            t == WithTop(frames, h)
<1>3. /\ n \in Nat /\ n >= 1 /\ t \in Seq(Frame) /\ Len(t) = n
      /\ \A i \in 1 .. n - 1 : t[i] = frames[i]
      /\ t[n] = h
  <2>1. n \in Nat /\ n >= 1
    BY <1>1
  <2>. QED
    BY <1>1, <2>1, ReplaceLast
<1>. HIDE DEF t
<1>4. /\ DOMAIN Append(t, f) = 1 .. n + 1 /\ Len(Append(t, f)) = n + 1
      /\ \A i \in 1 .. n : Append(t, f)[i] = t[i]
      /\ Append(t, f)[n + 1] = f
  BY <1>3, AppendLast
<1>5. frames' = Append(t, f)
  BY DEF t
<1>6. ASSUME NEW i \in 1 .. n + 1
      PROVE  /\ frames'[i].at = "new" => frames'[i].scoped
             /\ frames'[i].at \notin {"cached", "defined"}
  <2>1. CASE i = n + 1
    BY <1>4, <1>5, <2>1
  <2>2. CASE i = n
    <3>1. frames'[i] = h
      BY <1>3, <1>4, <1>5, <2>2
    <3>. QED
      BY <1>2, <3>1
  <2>3. CASE i \in 1 .. n - 1
    <3>1. frames'[i] = frames[i]
      BY <1>3, <1>4, <1>5, <2>3
    <3>. QED
      BY <2>3, <3>1, PlacesBelow
  <2>4. n \in Nat /\ i \in 1 .. n + 1
    BY <1>3
  <2>5. i = n + 1 \/ i = n \/ i \in 1 .. n - 1
    BY <2>4
  <2>. QED
    BY <2>1, <2>2, <2>3, <2>5
<1>. QED
  BY <1>1, <1>4, <1>5, <1>6 DEF PlacesInv

LEMMA PlacesLeave ==
  ASSUME ContextInv, PlacesInv, frames # <<>>, Leave, raised' => thrown', phase' = phase
  PROVE  PlacesInv'
<1>1. frames \in Seq(Frame) /\ phase # "done"
  BY TopPlace
<1>2. /\ Len(frames) \in Nat /\ Len(frames) >= 1 /\ DOMAIN frames' = 1 .. Len(frames) - 1
      /\ \A i \in 1 .. Len(frames) - 1 : frames'[i] = frames[i]
  BY <1>1, LastFront DEF Leave
<1>3. ASSUME NEW i \in 1 .. Len(frames) - 1
      PROVE  /\ frames'[i].at = "new" => frames'[i].scoped
             /\ frames'[i].at \notin {"cached", "defined"}
  BY <1>2, <1>3, PlacesBelow
<1>. QED
  BY <1>1, <1>2, <1>3 DEF PlacesInv

LEMMA PlacesStart ==
  ASSUME NEW f \in Frame, frames' = <<f>>, PlaceOK(f)', raised' => thrown', phase' # "done"
  PROVE  PlacesInv'
<1>1. DOMAIN frames' = {1} /\ frames'[1] = f /\ Len(frames') = 1
  OBVIOUS
<1>. QED
  BY <1>1 DEF PlacesInv, PlaceOK

LEMMA PlacesEmpty ==
  ASSUME frames' = <<>>, raised' => thrown',
         phase' = "done" => ~raised' /\ populateQueue' = <<>>
  PROVE  PlacesInv'
<1>1. DOMAIN frames' = {}
  OBVIOUS
<1>. QED
  BY <1>1 DEF PlacesInv

\* In which place a queued action starts.
LEMMA StartPlace ==
  ASSUME NEW a \in Action
  PROVE  /\ Start(a).at \in {"cached", "defined"} => Start(a).left = {}
         /\ Start(a).at = "cached" <=> a.do = "define"
         /\ Start(a).at = "defined" <=> a.do = "populate"
         /\ Start(a).at = "location" <=> a.do = "perform" /\ Behaviour[a.of] = "PushesLabel"
<1>1. a.do \in {"define", "populate", "perform", "later"}
  BY DEF Action
<1>2. CASE a.do = "define"
  BY <1>2 DEF Start, Call
<1>3. CASE a.do = "populate"
  BY <1>3 DEF Start, Call
<1>4. CASE a.do = "later"
  BY <1>4 DEF Start, Call
<1>5. CASE a.do = "perform"
  BY <1>5 DEF Start, Call
<1>. QED
  BY <1>1, <1>2, <1>3, <1>4, <1>5

\* The frame that PopulateNext starts, and what it leaves in the queue.
LEMMA RoundOfPopulateAll ==
  ASSUME ContextInv, PopulateNext
  PROVE  \E a \in Action, k \in BOOLEAN :
           /\ a = Head(populateQueue) /\ k = (a.guard # NoEntity /\ fromSource)
           /\ frames = <<>> /\ populateQueue # <<>> /\ populateQueue \in Seq(Action)
           /\ populateQueue' = Tail(populateQueue)
           /\ [Start(a) EXCEPT !.keyed = k] \in Frame
           /\ frames' = <<[Start(a) EXCEPT !.keyed = k]>>
           /\ tagStack = <<>> /\ tagStack' = IF k THEN <<a.guard>> ELSE <<>>
           /\ populations' = IF a.do = "perform" /\ Behaviour[a.of] # "PushesLabel"
                               THEN [populations EXCEPT ![a.of] = @ + 1]
                               ELSE populations
           /\ a.do = "perform" => ~k
           /\ ~writingLabel
<1>. DEFINE a == Head(populateQueue)
            k == a.guard # NoEntity /\ fromSource
<1>1. /\ frames = <<>> /\ populateQueue # <<>> /\ populateQueue \in Seq(Action)
      /\ DOMAIN frames = {}
  BY DEF ContextInv, PopulateNext, Idle, TypeOK
<1>2. a \in Action /\ a = populateQueue[1] /\ 1 \in DOMAIN populateQueue /\ k \in BOOLEAN
  BY <1>1
<1>3. tagStack = <<>> /\ ~writingLabel
  BY <1>1 DEF ContextInv, FramesInv, OneGuard, LabelOnTop, InLabel
<1>4. a.do = "perform" => ~k
  BY <1>2 DEF ContextInv, WaitsWithoutGuard
<1>5. Start(a) \in Frame
  <2>. HIDE DEF a
  <2>. QED
    BY <1>2, StartFrame
<1>6. [Start(a) EXCEPT !.keyed = k] \in Frame
  <2>. HIDE DEF a, k
  <2>. QED
    BY <1>2, <1>5 DEF Frame
<1>7. Append(<<>>, a.guard) = <<a.guard>>
  OBVIOUS
<1>8. /\ frames' = <<[Start(a) EXCEPT !.keyed = k]>>
      /\ tagStack' = IF k THEN <<a.guard>> ELSE <<>>
      /\ populateQueue' = Tail(populateQueue)
      /\ populations' = IF a.do = "perform" /\ Behaviour[a.of] # "PushesLabel"
                          THEN [populations EXCEPT ![a.of] = @ + 1]
                          ELSE populations
  BY <1>3, <1>7 DEF PopulateNext
<1>. HIDE DEF a, k
<1>. QED
  BY <1>1, <1>2, <1>3, <1>4, <1>6, <1>8 DEF a, k

\* How the actions that replace the top frame do it.
OnTop(f) == f \in Frame /\ frames' = WithTop(frames, f) /\ f.of = Top.of /\ f.scoped = Top.scoped

Stays(f) ==
  /\ (\E e \in Entity : CreateHit(e) \/ CreateTooDeep(e)) \/ DeferPart
  /\ f.at = Top.at /\ f.label = Top.label /\ f.left \subseteq Top.left
  /\ Top.at \notin {"cached", "defined"}
  /\ UNCHANGED populations

Populates(f) ==
  /\ PopulateNow \/ Complained \/ PushGuard
  /\ ~raised'
  /\ \/ f.at = "location" /\ Behaviour[Top.of] = "PushesLabel" /\ ~PushGuard /\ UNCHANGED populations
     \/ f.at = "complain" /\ Unguarded(Top.of) /\ PopulateNow /\ UNCHANGED populations
     \/ f.at = "populate" /\ populations' = [populations EXCEPT ![Top.of] = @ + 1]

MovesTo(f) ==
  \/ Construct /\ f.at = "cached" /\ f.left = {} /\ UNCHANGED populations
  \/ BeginLabel /\ f.at = "id" /\ UNCHANGED populations
  \/ (DefineLabelLater \/ EndLabel) /\ f.at = "defined" /\ f.left = {} /\ UNCHANGED populations
  \/ Catch /\ f.at = "report" /\ UNCHANGED populations

TopAction ==
  \/ \E e \in Entity : CreateHit(e) \/ CreateTooDeep(e)
  \/ Construct \/ BeginLabel \/ DefineLabelLater \/ (EndLabel /\ Top.scoped)
  \/ PopulateNow \/ Complained \/ PushGuard \/ DeferPart \/ Catch

LEMMA TopIsReplaced ==
  ASSUME ContextInv, PlacesInv, TopAction
  PROVE  /\ frames # <<>> /\ phase' = phase
         /\ \E f : OnTop(f) /\ (Stays(f) \/ Populates(f) \/ MovesTo(f))
<1>1. frames # <<>> /\ phase' = phase
  BY DEF TopAction, CreateHit, CreateTooDeep, Construct, BeginLabel, DefineLabelLater, EndLabel,
     PopulateNow, Complained, PushGuard, DeferPart, Catch, Running, task
<1>2. /\ frames \in Seq(Frame) /\ Top \in Frame /\ PlaceOK(Top)
      /\ Top.at \notin {"member", "comments", "report"} => Top.of \in Entity
  BY <1>1, TopPlace
<1>4. CASE \E e \in Entity : CreateHit(e) \/ CreateTooDeep(e)
  <2>1. PICK e \in Entity : CreateHit(e) \/ CreateTooDeep(e)
    BY <1>4
  <2>2. PICK f : f = [Top EXCEPT !.left = @ \ {e}]
    OBVIOUS
  <2>3. frames' = WithTop(frames, f) /\ Top.left # {} /\ UNCHANGED populations
    BY <2>1, <2>2 DEF CreateHit, CreateTooDeep, Created, trapFile
  <2>4. /\ f \in Frame /\ f.of = Top.of /\ f.at = Top.at /\ f.scoped = Top.scoped
        /\ f.label = Top.label /\ f.left \subseteq Top.left
    BY <1>2, <2>2 DEF Frame
  <2>5. Top.at \notin {"cached", "defined"}
    BY <1>2, <2>3 DEF PlaceOK
  <2>6. OnTop(f) /\ Stays(f)
    BY <1>4, <2>3, <2>4, <2>5 DEF OnTop, Stays
  <2>. QED
    BY <1>1, <2>6
<1>5. CASE Construct
  <2>1. PICK f : /\ frames' = WithTop(frames, f)
                 /\ f \in {[Top EXCEPT !.at = "cached", !.label = nextLabel],
                          [Top EXCEPT !.at = "cached", !.left = {}]}
    BY <1>5 DEF Construct, Goto
  <2>2. Top.left = {} /\ nextLabel \in Nat /\ UNCHANGED populations
    BY <1>5 DEF Construct, ContextInv, TypeOK, trapFile
  <2>3. f \in Frame /\ f.of = Top.of /\ f.at = "cached" /\ f.left = {} /\ f.scoped = Top.scoped
    BY <1>2, <2>1, <2>2, Places DEF Frame
  <2>4. OnTop(f) /\ MovesTo(f)
    BY <1>5, <2>1, <2>2, <2>3 DEF OnTop, MovesTo
  <2>. QED
    BY <1>1, <2>4
<1>6. CASE BeginLabel
  <2>1. PICK f : f = [Top EXCEPT !.at = "id", !.left = Uses[Top.of]["id"]]
    OBVIOUS
  <2>2. frames' = WithTop(frames, f) /\ Top.of \in Entity /\ UNCHANGED populations
    BY <1>2, <1>6, <2>1 DEF BeginLabel, Goto, trapFile
  <2>3. Uses[Top.of]["id"] \in SUBSET Entity
    BY <2>2, Constants DEF Section
  <2>4. f \in Frame /\ f.of = Top.of /\ f.at = "id" /\ f.scoped = Top.scoped
    BY <1>2, <2>1, <2>3, Places DEF Frame
  <2>5. OnTop(f) /\ MovesTo(f)
    BY <1>6, <2>2, <2>4 DEF OnTop, MovesTo
  <2>. QED
    BY <1>1, <2>5
<1>7. CASE DefineLabelLater \/ (EndLabel /\ Top.scoped)
  <2>1. PICK f : f = [Top EXCEPT !.at = "defined", !.left = {}]
    OBVIOUS
  <2>2. frames' = WithTop(frames, f) /\ UNCHANGED populations
    BY <1>7, <2>1 DEF DefineLabelLater, EndLabel, Goto, trapFile
  <2>3. f \in Frame /\ f.of = Top.of /\ f.at = "defined" /\ f.left = {} /\ f.scoped = Top.scoped
    BY <1>2, <2>1, Places DEF Frame
  <2>4. OnTop(f) /\ MovesTo(f)
    BY <1>7, <2>2, <2>3 DEF OnTop, MovesTo
  <2>. QED
    BY <1>1, <2>4
<1>8. ASSUME Begin(Top.of), Top.of \in Entity
      PROVE  \E f : /\ OnTop(f)
                    /\ \/ /\ f.at = "location" /\ Behaviour[Top.of] = "PushesLabel"
                          /\ UNCHANGED populations
                       \/ f.at = "populate" /\ populations' = [populations EXCEPT ![Top.of] = @ + 1]
  <2>1. Uses[Top.of]["location"] \in SUBSET Entity /\ Uses[Top.of]["populate"] \in SUBSET Entity
    BY <1>8, Constants DEF Section
  <2>2. CASE Behaviour[Top.of] = "PushesLabel"
    <3>1. PICK f : f = [Top EXCEPT !.at = "location", !.left = Uses[Top.of]["location"]]
      OBVIOUS
    <3>2. f \in Frame /\ f.of = Top.of /\ f.at = "location" /\ f.scoped = Top.scoped
      BY <1>2, <2>1, <3>1, Places DEF Frame
    <3>. QED
      BY <1>8, <2>2, <3>1, <3>2 DEF Begin, Goto, OnTop
  <2>3. CASE Behaviour[Top.of] # "PushesLabel"
    <3>1. PICK f : f = [Top EXCEPT !.at = "populate", !.left = Uses[Top.of]["populate"],
                                   !.defers = Uses[Top.of]["later"] # {}]
      OBVIOUS
    <3>2. f \in Frame /\ f.of = Top.of /\ f.at = "populate" /\ f.scoped = Top.scoped
      BY <1>2, <2>1, <3>1, Places DEF Frame
    <3>. QED
      BY <1>8, <2>3, <3>1, <3>2 DEF Begin, OnTop
  <2>. QED
    BY <2>2, <2>3
<1>9. CASE PopulateNow \/ Complained
  <2>1. /\ ~raised' /\ Top.of \in Entity /\ ~PushGuard
        /\ \/ Begin(Top.of)
           \/ PopulateNow /\ Unguarded(Top.of) /\ Goto("complain", ErrorLocation) /\ UNCHANGED populations
    BY <1>2, <1>9 DEF PopulateNow, Complained, PushGuard, Running
  <2>2. CASE Begin(Top.of)
    BY <1>1, <1>8, <1>9, <2>1, <2>2 DEF Populates
  <2>3. CASE /\ PopulateNow /\ Unguarded(Top.of) /\ Goto("complain", ErrorLocation)
             /\ UNCHANGED populations
    <3>1. PICK f : f = [Top EXCEPT !.at = "complain", !.left = ErrorLocation]
      OBVIOUS
    <3>2. f \in Frame /\ f.of = Top.of /\ f.at = "complain" /\ f.scoped = Top.scoped
      BY <1>2, <3>1, Places, Constants DEF Frame
    <3>3. OnTop(f)
      BY <2>3, <3>1, <3>2 DEF Goto, OnTop
    <3>4. Populates(f)
      BY <2>1, <2>3, <3>2 DEF Populates
    <3>. QED
      BY <1>1, <3>3, <3>4
  <2>. QED
    BY <2>1, <2>2, <2>3
<1>10. CASE PushGuard
  <2>1. PICK f : f = [Top EXCEPT !.at = "populate", !.left = Uses[Top.of]["populate"],
                                 !.defers = Uses[Top.of]["later"] # {}, !.keyed = fromSource]
    OBVIOUS
  <2>2. /\ frames' = WithTop(frames, f) /\ ~raised' /\ Top.of \in Entity /\ fromSource \in BOOLEAN
        /\ populations' = [populations EXCEPT ![Top.of] = @ + 1]
    BY <1>2, <1>10, <2>1 DEF PushGuard, Running, ContextInv, TypeOK
  <2>3. Uses[Top.of]["populate"] \in SUBSET Entity
    BY <2>2, Constants DEF Section
  <2>4. f \in Frame /\ f.of = Top.of /\ f.at = "populate" /\ f.scoped = Top.scoped
    BY <1>2, <2>1, <2>2, <2>3, Places DEF Frame
  <2>5. OnTop(f) /\ Populates(f)
    BY <1>10, <2>2, <2>4 DEF OnTop, Populates
  <2>. QED
    BY <1>1, <2>5
<1>11. CASE DeferPart
  <2>1. PICK f : f = [Top EXCEPT !.defers = FALSE]
    OBVIOUS
  <2>2. frames' = WithTop(frames, f) /\ Top.at = "populate" /\ UNCHANGED populations
    BY <1>11, <2>1 DEF DeferPart, trapFile
  <2>3. /\ f \in Frame /\ f.of = Top.of /\ f.at = Top.at /\ f.scoped = Top.scoped
        /\ f.label = Top.label /\ f.left \subseteq Top.left
    BY <1>2, <2>1 DEF Frame
  <2>4. OnTop(f) /\ Stays(f)
    BY <1>11, <2>2, <2>3 DEF OnTop, Stays
  <2>. QED
    BY <1>1, <2>4
<1>12. CASE Catch
  <2>1. PICK f : f = [Top EXCEPT !.at = "report", !.left = ErrorLocation, !.defers = FALSE]
    OBVIOUS
  <2>2. frames' = WithTop(frames, f) /\ UNCHANGED populations
    BY <1>12, <2>1 DEF Catch, trapFile
  <2>3. f \in Frame /\ f.of = Top.of /\ f.at = "report" /\ f.scoped = Top.scoped
    BY <1>2, <2>1, Places, Constants DEF Frame
  <2>4. OnTop(f) /\ MovesTo(f)
    BY <1>12, <2>2, <2>3 DEF OnTop, MovesTo
  <2>. QED
    BY <1>1, <2>4
<1>. QED
  BY <1>4, <1>5, <1>6, <1>7, <1>9, <1>10, <1>11, <1>12 DEF TopAction

\* Every action keeps PlacesInv: those that replace the top frame, ...
LEMMA PlacesOfTop ==
  ASSUME ContextInv, PlacesInv, TopAction
  PROVE  PlacesInv'
<1>1. PICK f : OnTop(f) /\ (Stays(f) \/ Populates(f) \/ MovesTo(f))
  BY TopIsReplaced
<1>2. /\ frames # <<>> /\ phase' = phase /\ f \in Frame /\ frames' = WithTop(frames, f)
      /\ f.scoped = Top.scoped /\ f.at \in Where /\ PlaceOK(Top)
  BY <1>1, TopIsReplaced, TopPlace, FrameFields DEF OnTop
<1>3. raised' => thrown'
  BY DEF TopAction, PlacesInv, CreateHit, CreateTooDeep, Construct, BeginLabel, DefineLabelLater,
     EndLabel, PopulateNow, Complained, PushGuard, DeferPart, Catch
<1>4. PlaceOK(f)'
  <2>1. CASE Stays(f)
    <3>1. f.at = Top.at /\ Top.at \notin {"cached", "defined"}
      BY <2>1 DEF Stays
    <3>. QED
      BY <1>2, <3>1 DEF PlaceOK
  <2>2. CASE Populates(f)
    <3>1. f.at \in {"location", "complain", "populate"}
      BY <2>2 DEF Populates
    <3>. QED
      BY <3>1 DEF PlaceOK
  <2>3. CASE MovesTo(f)
    <3>1. \/ f.at = "cached" /\ f.left = {} /\ Top.at = "new" /\ ~raised'
          \/ f.at = "defined" /\ f.left = {} /\ ~raised'
          \/ f.at \in {"id", "report"}
      BY <2>3 DEF MovesTo, Construct, DefineLabelLater, EndLabel, Running
    <3>. QED
      BY <1>2, <3>1 DEF PlaceOK
  <2>. QED
    BY <1>1, <2>1, <2>2, <2>3
<1>. QED
  BY <1>2, <1>3, <1>4, PlacesTop

\* ... and all others.
LEMMA StepKeepsPlaces ==
  ASSUME ContextInv, PlacesInv, [Next]_vars
  PROVE  PlacesInv'
<1>0. raised => thrown
  BY DEF PlacesInv
<1>1. CASE UNCHANGED vars
  BY <1>1 DEF vars, PlacesInv
<1>2. CASE \E e \in Entity : CreateNew(e)
  <2>1. PICK e \in Entity : CreateNew(e)
    BY <1>2
  <2>. DEFINE h == [Top EXCEPT !.left = @ \ {e}]
              c == Call("new", e, Uses[e]["new"])
  <2>2. /\ frames # <<>> /\ Top.left # {} /\ ~raised' /\ phase' = phase /\ nextLabel \in Nat
    BY <2>1 DEF CreateNew, Running, task, ContextInv, TypeOK
  <2>3. h \in Frame /\ h.at = Top.at /\ h.scoped = Top.scoped
    BY <2>2, TopPlace DEF Frame
  <2>4. c \in Frame /\ c.at = "new"
    BY Places, Constants DEF Call, Frame, Section
  <2>5. PICK f : /\ frames' = Append(WithTop(frames, h), f)
                 /\ f \in {[c EXCEPT !.scoped = TRUE],
                          [c EXCEPT !.scoped = TRUE, !.label = nextLabel]}
    BY <2>1 DEF CreateNew, Created
  <2>. HIDE DEF h, c
  <2>6. f \in Frame /\ f.at = "new" /\ f.scoped
    BY <2>2, <2>4, <2>5 DEF Frame
  <2>. QED
    BY <2>2, <2>3, <2>5, <2>6, PlacesPush
<1>3. CASE \/ ConstructKnown \/ PopulateNot \/ PopulateAfterLabel \/ PopulateDeferred
           \/ Return \/ Propagate \/ (EndLabel /\ ~Top.scoped)
  <2>1. frames # <<>> /\ Leave /\ phase' = phase /\ (raised' => thrown')
    BY <1>0, <1>3 DEF ConstructKnown, PopulateNot, PopulateAfterLabel, PopulateDeferred, Return,
       Propagate, EndLabel, Running, task
  <2>. QED
    BY <2>1, PlacesLeave
<1>4. CASE Throw
  <2>1. /\ frames # <<>> /\ UNCHANGED <<frames, phase, writingLabel>> /\ thrown'
        /\ <<Top.of, Top.at>> \in Faulty
    BY <1>4 DEF Throw, Running, task
  <2>2. Top.at \notin {"cached", "defined"} /\ (Top.at = "new" => Top.scoped) /\ phase # "done"
        /\ frames \in Seq(Frame)
    BY <2>1, TopPlace, ContextAssumption DEF Section, PlaceOK
  <2>3. /\ Len(frames) \in Nat /\ DOMAIN frames = 1 .. Len(frames) /\ Top = frames[Len(frames)]
    BY <2>1, <2>2, LastFront DEF Top
  <2>4. ASSUME NEW i \in 1 .. Len(frames)
        PROVE  /\ frames[i].at = "new" => frames[i].scoped
               /\ frames[i].at \notin {"cached", "defined"}
    <3>0. Len(frames) \in Nat /\ i \in 1 .. Len(frames)
      BY <2>3
    <3>1. i = Len(frames) \/ i \in 1 .. Len(frames) - 1
      BY <3>0
    <3>. QED
      BY <2>1, <2>2, <2>3, <3>1, PlacesBelow
  <2>. QED
    BY <2>1, <2>2, <2>3, <2>4 DEF PlacesInv
<1>5. CASE CatchInPopulateAll \/ VisitMember \/ (Populated /\ fromSource)
  <2>1. \E place \in {"report", "member", "comments"} : \E todo :
          frames' = <<Call(place, NoEntity, todo)>>
    BY <1>5 DEF CatchInPopulateAll, HandlerOfPopulateAll, VisitMember, Populated
  <2>2. PICK place, f :
          place \in {"report", "member", "comments"} /\ frames' = <<f>> /\ \E todo : f = Call(place, NoEntity, todo)
    BY <2>1
  <2>3. f.at = place
    BY <2>2 DEF Call
  <2>4. frames' \in Seq(Frame)
    BY <1>5, StepKeepsInv DEF ContextInv, TypeOK, Next
  <2>5. f \in Frame
    <3>1. DOMAIN <<f>> = {1} /\ <<f>>[1] = f
      OBVIOUS
    <3>2. 1 \in DOMAIN frames' /\ frames'[1] = f
      BY <2>2, <3>1
    <3>. QED
      BY <2>4, <3>2
  <2>6. ~raised' /\ phase' # "done"
    <3>1. CASE CatchInPopulateAll
      BY <3>1 DEF CatchInPopulateAll, task
    <3>2. CASE VisitMember
      BY <3>2 DEF VisitMember, Idle
    <3>3. CASE Populated /\ fromSource
      BY <3>3 DEF Populated, Idle
    <3>. QED
      BY <1>5, <3>1, <3>2, <3>3
  <2>. QED
    BY <2>2, <2>3, <2>5, <2>6, PlacesStart DEF PlaceOK
<1>6. CASE Fail \/ MembersVisited \/ (Populated /\ ~fromSource) \/ CommentsExtracted \/ AllPopulated
  <2>1. frames' = <<>> /\ ~raised' /\ (phase' = "done" => populateQueue' = <<>>)
    BY <1>6 DEF Fail, MembersVisited, Populated, CommentsExtracted, AllPopulated, Idle
  <2>. QED
    BY <2>1, PlacesEmpty
<1>7. CASE PopulateNext
  <2>1. PICK a \in Action, k \in BOOLEAN :
          /\ [Start(a) EXCEPT !.keyed = k] \in Frame
          /\ frames' = <<[Start(a) EXCEPT !.keyed = k]>>
          /\ ~writingLabel
    BY <1>7, RoundOfPopulateAll
  <2>2. ~raised' /\ phase' # "done" /\ writingLabel' = writingLabel
    BY <1>7 DEF PopulateNext, Idle, task
  <2>0. PICK f : f = [Start(a) EXCEPT !.keyed = k]
    OBVIOUS
  <2>3. Start(a) \in Frame /\ (Start(a).at \in {"cached", "defined"} => Start(a).left = {})
        /\ Start(a).at \in {"cached", "defined", "later", "location", "populate"}
    BY StartFrame, StartPlace
  <2>4. f \in Frame /\ f.at = Start(a).at /\ f.left = Start(a).left
    BY <2>0, <2>1, <2>3 DEF Frame
  <2>5. frames' = <<f>>
    BY <2>0, <2>1
  <2>6. PlaceOK(f)'
    BY <2>1, <2>2, <2>3, <2>4 DEF PlaceOK
  <2>. QED
    BY <2>2, <2>4, <2>5, <2>6, PlacesStart
<1>8. CASE TopAction
  BY <1>8, PlacesOfTop
<1>9. CASE Next
  <2>1. CASE EndLabel
    BY <1>3, <1>8, <2>1 DEF TopAction
  <2>2. CASE Populated
    BY <1>5, <1>6, <2>2
  <2>3. CASE \E e \in Entity : CreateHit(e) \/ CreateTooDeep(e) \/ CreateNew(e)
    BY <1>2, <1>8, <2>3 DEF TopAction
  <2>4. CASE \/ ConstructKnown \/ PopulateNot \/ PopulateAfterLabel \/ PopulateDeferred
             \/ Return \/ Propagate
    BY <1>3, <2>4
  <2>5. CASE \/ Construct \/ BeginLabel \/ DefineLabelLater \/ PopulateNow \/ Complained
             \/ PushGuard \/ DeferPart \/ Catch
    BY <1>8, <2>5 DEF TopAction
  <2>6. CASE CatchInPopulateAll \/ VisitMember
    BY <1>5, <2>6
  <2>7. CASE Fail \/ MembersVisited \/ CommentsExtracted \/ AllPopulated
    BY <1>6, <2>7
  <2>. QED
    BY <1>4, <1>7, <1>9, <2>1, <2>2, <2>3, <2>4, <2>5, <2>6, <2>7 DEF Next
<1>. QED
  BY <1>1, <1>9

-----------------------------------------------------------------------------
(* What a step does to the definitions and populations that are owed.      *)

\* The share of one frame, and of one queued action.
DefinesBit(f, e)   == Bit(f.of = e /\ f.at \in {"cached", "id"})
PopulatesBit(f, e) ==
  Bit(f.of = e /\ ((f.at \in {"cached", "id"} /\ f.scoped) \/ f.at \in {"defined", "complain", "location"}))
QueuedDefineBit(a, e)   == Bit(a.of = e /\ a.do = "define")
QueuedPopulateBit(a, e) == Bit(a.of = e /\ a.do \in {"populate", "perform"})

DefiningFrames(e)    == CountIn(frames, Defining(e))
PopulatingFrames(e)  == CountIn(frames, Populating(e))
QueuedDefines(e)     == CountIn(populateQueue, ToDefine(e))
QueuedPopulations(e) == CountIn(populateQueue, ToPopulate(e))

LEMMA FrameBits ==
  ASSUME NEW f \in Frame, NEW e
  PROVE  /\ Bit(f \in Defining(e)) = DefinesBit(f, e)
         /\ Bit(f \in Populating(e)) = PopulatesBit(f, e)
BY DEF Defining, Populating, DefinesBit, PopulatesBit, Bit

LEMMA ActionBits ==
  ASSUME NEW a \in Action, NEW e
  PROVE  /\ Bit(a \in ToDefine(e)) = QueuedDefineBit(a, e)
         /\ Bit(a \in ToPopulate(e)) = QueuedPopulateBit(a, e)
BY DEF ToDefine, ToPopulate, QueuedDefineBit, QueuedPopulateBit, Bit

LEMMA CountsAreNat ==
  ASSUME ContextInv, NEW e \in Entity
  PROVE  /\ DefiningFrames(e) \in Nat /\ PopulatingFrames(e) \in Nat
         /\ QueuedDefines(e) \in Nat /\ QueuedPopulations(e) \in Nat
         /\ definitions[e] \in Nat /\ populations[e] \in Nat
         /\ DefinitionsOf(e) = definitions[e] + DefiningFrames(e) + QueuedDefines(e)
         /\ PopulationsOf(e) = populations[e] + PopulatingFrames(e) + QueuedPopulations(e)
<1>1. /\ frames \in Seq(Frame) /\ populateQueue \in Seq(Action)
      /\ definitions[e] \in Nat /\ populations[e] \in Nat
  BY DEF ContextInv, TypeOK
<1>. QED
  BY <1>1, CountIsNat DEF DefiningFrames, PopulatingFrames, QueuedDefines, QueuedPopulations,
     DefinitionsOf, PopulationsOf

LEMMA CountsOfTop ==
  ASSUME ContextInv, frames # <<>>, NEW f \in Frame, frames' = WithTop(frames, f), NEW e \in Entity
  PROVE  /\ DefiningFrames(e)' + DefinesBit(Top, e) = DefiningFrames(e) + DefinesBit(f, e)
         /\ PopulatingFrames(e)' + PopulatesBit(Top, e) = PopulatingFrames(e) + PopulatesBit(f, e)
<1>1. frames \in Seq(Frame) /\ Top \in Frame /\ Front(frames) \in Seq(Frame)
  BY LastFront DEF ContextInv, TypeOK, Top
<1>2. ASSUME NEW P
      PROVE  /\ CountIn(frames, P) = CountIn(Front(frames), P) + Bit(Top \in P)
             /\ CountIn(WithTop(frames, f), P) = CountIn(Front(frames), P) + Bit(f \in P)
             /\ CountIn(Front(frames), P) \in Nat
  <2>1. CountIn(frames, P) = CountIn(Front(frames), P) + Bit(Top \in P)
    BY <1>1, CountFront DEF Top
  <2>2. CountIn(WithTop(frames, f), P) = CountIn(Front(frames), P) + Bit(f \in P)
    BY <1>1, CountWithTop
  <2>3. CountIn(Front(frames), P) \in Nat
    BY <1>1, CountIsNat
  <2>. QED
    BY <2>1, <2>2, <2>3
<1>3. ASSUME NEW P
      PROVE  CountIn(frames', P) + Bit(Top \in P) = CountIn(frames, P) + Bit(f \in P)
  BY <1>2 DEF Bit
<1>. QED
  BY <1>1, <1>3, FrameBits DEF DefiningFrames, PopulatingFrames, Defining, Populating

LEMMA CountsOfLeave ==
  ASSUME ContextInv, frames # <<>>, Leave, NEW e \in Entity
  PROVE  /\ DefiningFrames(e)' + DefinesBit(Top, e) = DefiningFrames(e)
         /\ PopulatingFrames(e)' + PopulatesBit(Top, e) = PopulatingFrames(e)
<1>1. frames \in Seq(Frame) /\ Top \in Frame /\ Front(frames) \in Seq(Frame)
  BY LastFront DEF ContextInv, TypeOK, Top
<1>2. frames' = Front(frames)
  BY DEF Leave
<1>3. ASSUME NEW P
      PROVE  CountIn(frames', P) + Bit(Top \in P) = CountIn(frames, P)
  BY <1>1, <1>2, CountFront DEF Top
<1>. QED
  BY <1>1, <1>3, FrameBits DEF DefiningFrames, PopulatingFrames, Defining, Populating

LEMMA CountsOfPush ==
  ASSUME ContextInv, frames # <<>>, NEW h \in Frame, NEW f \in Frame,
         frames' = Append(WithTop(frames, h), f),
         h.at = Top.at, h.of = Top.of, h.scoped = Top.scoped, f.at = "new", NEW e \in Entity
  PROVE  UNCHANGED <<DefiningFrames(e), PopulatingFrames(e)>>
<1>1. frames \in Seq(Frame) /\ Top \in Frame /\ Front(frames) \in Seq(Frame)
      /\ WithTop(frames, h) \in Seq(Frame)
  BY LastFront, ReplaceLast DEF ContextInv, TypeOK, Top
<1>2. ASSUME NEW P
      PROVE  /\ CountIn(frames, P) = CountIn(Front(frames), P) + Bit(Top \in P)
             /\ CountIn(WithTop(frames, h), P) = CountIn(Front(frames), P) + Bit(h \in P)
             /\ CountIn(Append(WithTop(frames, h), f), P) = CountIn(WithTop(frames, h), P) + Bit(f \in P)
             /\ CountIn(Front(frames), P) \in Nat
  <2>1. CountIn(frames, P) = CountIn(Front(frames), P) + Bit(Top \in P)
    BY <1>1, CountFront DEF Top
  <2>2. CountIn(WithTop(frames, h), P) = CountIn(Front(frames), P) + Bit(h \in P)
    BY <1>1, CountWithTop
  <2>3. CountIn(Append(WithTop(frames, h), f), P) = CountIn(WithTop(frames, h), P) + Bit(f \in P)
    BY <1>1, CountAppend
  <2>4. CountIn(Front(frames), P) \in Nat
    BY <1>1, CountIsNat
  <2>. QED
    BY <2>1, <2>2, <2>3, <2>4
<1>3. ASSUME NEW P, Bit(h \in P) = Bit(Top \in P), Bit(f \in P) = 0
      PROVE  CountIn(frames', P) = CountIn(frames, P)
  BY <1>2, <1>3 DEF Bit
<1>4. /\ Bit(h \in Defining(e)) = Bit(Top \in Defining(e)) /\ Bit(f \in Defining(e)) = 0
      /\ Bit(h \in Populating(e)) = Bit(Top \in Populating(e)) /\ Bit(f \in Populating(e)) = 0
  BY <1>1 DEF Defining, Populating, Bit
<1>. QED
  BY <1>3, <1>4 DEF DefiningFrames, PopulatingFrames, Defining, Populating

LEMMA CountsOfStart ==
  ASSUME frames = <<>>, NEW e \in Entity
  PROVE  /\ DefiningFrames(e) = 0 /\ PopulatingFrames(e) = 0
         /\ \A f \in Frame : frames' = <<f>> =>
              DefiningFrames(e)' = DefinesBit(f, e) /\ PopulatingFrames(e)' = PopulatesBit(f, e)
<1>1. ASSUME NEW f \in Frame, NEW P PROVE CountIn(<<f>>, P) = Bit(f \in P)
  <2>1. <<f>> = Append(<<>>, f) /\ <<>> \in Seq(Frame)
    OBVIOUS
  <2>2. CountIn(<<>>, P) = 0 /\ CountIn(Append(<<>>, f), P) = CountIn(<<>>, P) + Bit(f \in P)
    BY <2>1, CountEmpty, CountAppend
  <2>. QED
    BY <2>1, <2>2 DEF Bit
<1>2. DefiningFrames(e) = 0 /\ PopulatingFrames(e) = 0
  BY CountEmpty DEF DefiningFrames, PopulatingFrames
<1>3. ASSUME NEW f \in Frame, frames' = <<f>>
      PROVE  DefiningFrames(e)' = DefinesBit(f, e) /\ PopulatingFrames(e)' = PopulatesBit(f, e)
  BY <1>1, <1>3, FrameBits DEF DefiningFrames, PopulatingFrames, Defining, Populating
<1>. QED
  BY <1>2, <1>3

LEMMA CountsOfQueue ==
  ASSUME ContextInv, NEW a \in Action, populateQueue' = Append(populateQueue, a), NEW e \in Entity
  PROVE  /\ QueuedDefines(e)' = QueuedDefines(e) + QueuedDefineBit(a, e)
         /\ QueuedPopulations(e)' = QueuedPopulations(e) + QueuedPopulateBit(a, e)
<1>1. populateQueue \in Seq(Action)
  BY DEF ContextInv, TypeOK
<1>. QED
  BY <1>1, CountAppend, ActionBits DEF QueuedDefines, QueuedPopulations, ToDefine, ToPopulate

LEMMA CountsOfRound ==
  ASSUME ContextInv, populateQueue # <<>>, populateQueue' = Tail(populateQueue), NEW e \in Entity,
         NEW a \in Action, a = Head(populateQueue)
  PROVE  /\ QueuedDefines(e) = QueuedDefines(e)' + QueuedDefineBit(a, e)
         /\ QueuedPopulations(e) = QueuedPopulations(e)' + QueuedPopulateBit(a, e)
<1>1. populateQueue \in Seq(Action)
  BY DEF ContextInv, TypeOK
<1>2. ASSUME NEW P PROVE CountIn(populateQueue, P) = CountIn(Tail(populateQueue), P) + Bit(a \in P)
  BY <1>1, CountTail
<1>. QED
  BY <1>2, ActionBits DEF QueuedDefines, QueuedPopulations, ToDefine, ToPopulate

\* One definition, or one population, more.
LEMMA OneMore ==
  ASSUME NEW F \in [Entity -> Nat], NEW G, NEW x \in Entity, NEW e \in Entity,
         G = [F EXCEPT ![x] = @ + 1]
  PROVE  G[e] = F[e] + Bit(x = e)
BY DEF Bit

\* Nothing is owed that was not owed before, and what was owed still is.
Conserves(e) == DefinitionsOf(e)' = DefinitionsOf(e) /\ PopulationsOf(e)' = PopulationsOf(e)

\* The sums of the two totals, for a step that changes them by given shares.
LEMMA TotalsOf ==
  ASSUME ContextInv, [Next]_vars, NEW e \in Entity
  PROVE  /\ DefinitionsOf(e) = definitions[e] + DefiningFrames(e) + QueuedDefines(e)
         /\ PopulationsOf(e) = populations[e] + PopulatingFrames(e) + QueuedPopulations(e)
         /\ DefinitionsOf(e)' = definitions'[e] + DefiningFrames(e)' + QueuedDefines(e)'
         /\ PopulationsOf(e)' = populations'[e] + PopulatingFrames(e)' + QueuedPopulations(e)'
         /\ DefiningFrames(e) \in Nat /\ PopulatingFrames(e) \in Nat
         /\ QueuedDefines(e) \in Nat /\ QueuedPopulations(e) \in Nat
         /\ definitions[e] \in Nat /\ populations[e] \in Nat
         /\ DefiningFrames(e)' \in Nat /\ PopulatingFrames(e)' \in Nat
         /\ QueuedDefines(e)' \in Nat /\ QueuedPopulations(e)' \in Nat
         /\ definitions'[e] \in Nat /\ populations'[e] \in Nat
<1>1. ContextInv'
  BY StepKeepsInv
<1>2. ContextInv => /\ DefiningFrames(e) \in Nat /\ PopulatingFrames(e) \in Nat
                    /\ QueuedDefines(e) \in Nat /\ QueuedPopulations(e) \in Nat
                    /\ definitions[e] \in Nat /\ populations[e] \in Nat
                    /\ DefinitionsOf(e) = definitions[e] + DefiningFrames(e) + QueuedDefines(e)
                    /\ PopulationsOf(e) = populations[e] + PopulatingFrames(e) + QueuedPopulations(e)
  BY CountsAreNat
<1>3. (ContextInv => /\ DefiningFrames(e) \in Nat /\ PopulatingFrames(e) \in Nat
                     /\ QueuedDefines(e) \in Nat /\ QueuedPopulations(e) \in Nat
                     /\ definitions[e] \in Nat /\ populations[e] \in Nat
                     /\ DefinitionsOf(e) = definitions[e] + DefiningFrames(e) + QueuedDefines(e)
                     /\ PopulationsOf(e) = populations[e] + PopulatingFrames(e) + QueuedPopulations(e))'
  BY CountsAreNat, PTL
<1>. QED
  BY <1>1, <1>2, <1>3

\* What the actions that replace the top frame do to the queue and the label.
LEMMA QueueOfTopAction ==
  ASSUME ContextInv, PlacesInv, TopAction, NEW e \in Entity
  PROVE  /\ QueuedPopulations(e)' = QueuedPopulations(e)
         /\ QueuedDefines(e)' = QueuedDefines(e) + Bit(DefineLabelLater /\ Top.of = e)
         /\ definitions'[e] = definitions[e] + Bit(EndLabel /\ Top.of = e)
<1>1. /\ definitions \in [Entity -> Nat] /\ TypeOK /\ definitions[e] \in Nat /\ frames # <<>>
      /\ QueuedDefines(e) \in Nat /\ QueuedPopulations(e) \in Nat
  BY TopIsReplaced, CountsAreNat DEF ContextInv, TypeOK
<1>2. Top \in Frame /\ Top.label \in Nat /\ (Top.at \in {"cached", "id", "populate"} => Top.of \in Entity)
  BY <1>1, TopPlace, FrameFields
<1>3. CASE EndLabel
  <2>1. Top.at = "id" /\ UNCHANGED populateQueue
        /\ definitions' = [definitions EXCEPT ![Top.of] = @ + 1]
    BY <1>3 DEF EndLabel
  <2>2. ~DefineLabelLater
    BY <2>1 DEF DefineLabelLater
  <2>3. UNCHANGED <<QueuedDefines(e), QueuedPopulations(e)>>
    BY <2>1 DEF QueuedDefines, QueuedPopulations, ToDefine, ToPopulate
  <2>4. Top.of \in Entity
    BY <1>2, <2>1
  <2>5. definitions'[e] = definitions[e] + Bit(Top.of = e)
    BY <1>1, <2>1, <2>4, OneMore
  <2>. QED
    BY <1>1, <1>3, <2>2, <2>3, <2>5 DEF Bit
<1>4. CASE DefineLabelLater \/ DeferPart
  <2>1. PICK a : a = IF DefineLabelLater THEN Guarded("define", Top.of, Top.label)
                                         ELSE Guarded("later", Top.of, Top.label)
    OBVIOUS
  <2>2. /\ Top.of \in Entity /\ UNCHANGED definitions /\ ~EndLabel
        /\ populateQueue' = Append(populateQueue, a)
    BY <1>2, <1>4, <2>1 DEF DefineLabelLater, DeferPart, EndLabel, PopulateLater, trapFile
  <2>3. /\ a \in Action /\ a.of = Top.of /\ a.do = IF DefineLabelLater THEN "define" ELSE "later"
    <3>1. \A do \in {"define", "later"} : Guarded(do, Top.of, Top.label) \in Action
      BY <1>1, <1>2, <2>2, GuardedIsAction
    <3>. QED
      BY <2>1, <3>1 DEF Guarded
  <2>4. /\ QueuedDefines(e)' = QueuedDefines(e) + QueuedDefineBit(a, e)
        /\ QueuedPopulations(e)' = QueuedPopulations(e) + QueuedPopulateBit(a, e)
    BY <2>2, <2>3, CountsOfQueue
  <2>. QED
    BY <1>1, <2>2, <2>3, <2>4 DEF QueuedDefineBit, QueuedPopulateBit, Bit
<1>5. CASE ~EndLabel /\ ~DefineLabelLater /\ ~DeferPart
  <2>1. UNCHANGED <<populateQueue, definitions>>
    BY <1>5 DEF TopAction, CreateHit, CreateTooDeep, Construct, BeginLabel, PopulateNow, Complained,
       PushGuard, Catch, trapFile
  <2>2. UNCHANGED <<QueuedDefines(e), QueuedPopulations(e)>>
    BY <2>1 DEF QueuedDefines, QueuedPopulations, ToDefine, ToPopulate
  <2>. QED
    BY <1>1, <1>5, <2>1, <2>2 DEF Bit
<1>. QED
  BY <1>3, <1>4, <1>5

\* A constructor that has returned makes its entity owe a definition and a
\* population; the other actions on the top frame only pass on what is owed.
LEMMA TotalsOfTop ==
  ASSUME ContextInv, PlacesInv, TopAction, NEW e \in Entity
  PROVE  /\ Construct => /\ DefinitionsOf(e)' = DefinitionsOf(e) + Bit(Top.of = e)
                         /\ PopulationsOf(e)' = PopulationsOf(e) + Bit(Top.of = e)
         /\ ~Construct => Conserves(e)
<1>0. [Next]_vars
  BY DEF TopAction, Next
<1>1. PICK f : OnTop(f) /\ (Stays(f) \/ Populates(f) \/ MovesTo(f))
  BY TopIsReplaced
<1>2. /\ frames # <<>> /\ f \in Frame /\ frames' = WithTop(frames, f)
      /\ f.of = Top.of /\ f.scoped = Top.scoped /\ PlaceOK(Top)
      /\ Top.at \notin {"member", "comments", "report"} => Top.of \in Entity
  BY <1>1, TopIsReplaced, TopPlace DEF OnTop
<1>. DEFINE here == Top.of = e
<1>3. /\ DefiningFrames(e)' + DefinesBit(Top, e) = DefiningFrames(e) + DefinesBit(f, e)
      /\ PopulatingFrames(e)' + PopulatesBit(Top, e) = PopulatingFrames(e) + PopulatesBit(f, e)
  BY <1>2, CountsOfTop
<1>4. /\ QueuedPopulations(e)' = QueuedPopulations(e)
      /\ QueuedDefines(e)' = QueuedDefines(e) + Bit(DefineLabelLater /\ here)
      /\ definitions'[e] = definitions[e] + Bit(EndLabel /\ here)
  BY QueueOfTopAction
<1>5. /\ DefinesBit(Top, e) = Bit(here /\ Top.at \in {"cached", "id"})
      /\ DefinesBit(f, e) = Bit(here /\ f.at \in {"cached", "id"})
      /\ PopulatesBit(Top, e) = Bit(here /\ \/ Top.at \in {"cached", "id"} /\ Top.scoped
                                            \/ Top.at \in {"defined", "complain", "location"})
      /\ PopulatesBit(f, e) = Bit(here /\ \/ f.at \in {"cached", "id"} /\ Top.scoped
                                          \/ f.at \in {"defined", "complain", "location"})
  BY <1>2 DEF DefinesBit, PopulatesBit
<1>6. ASSUME populations'[e] = populations[e] + Bit(f.at = "populate" /\ Top.at # "populate" /\ here),
             PopulatesBit(Top, e) = PopulatesBit(f, e) + Bit(f.at = "populate" /\ Top.at # "populate" /\ here),
             DefinesBit(Top, e) = DefinesBit(f, e) + Bit(DefineLabelLater /\ here) + Bit(EndLabel /\ here)
      PROVE  Conserves(e)
  BY <1>0, <1>3, <1>4, <1>6, TotalsOf DEF Conserves, Bit, DefinesBit, PopulatesBit
<1>7. CASE Stays(f)
  <2>1. /\ f.at = Top.at /\ UNCHANGED populations
        /\ ~DefineLabelLater /\ ~EndLabel /\ ~Construct
    BY <1>7 DEF Stays, DefineLabelLater, EndLabel, Construct, CreateHit, CreateTooDeep, DeferPart,
       Running
  <2>. QED
    BY <1>0, <1>5, <1>6, <2>1, TotalsOf DEF Bit
<1>8. CASE Populates(f)
  <2>1. /\ Top.at \in {"defined", "complain", "location"} /\ f.at \in {"location", "complain", "populate"}
        /\ ~DefineLabelLater /\ ~EndLabel /\ ~Construct
    BY <1>8 DEF Populates, DefineLabelLater, EndLabel, Construct, PopulateNow, Complained, PushGuard
  <2>2. populations'[e] = populations[e] + Bit(f.at = "populate" /\ here)
    <3>1. populations \in [Entity -> Nat] /\ Top.of \in Entity /\ populations[e] \in Nat
      BY <1>2, <2>1 DEF ContextInv, TypeOK
    <3>2. CASE f.at = "populate"
      <4>1. populations' = [populations EXCEPT ![Top.of] = @ + 1]
        BY <1>8, <3>2 DEF Populates
      <4>2. populations'[e] = populations[e] + Bit(here)
        BY <3>1, <4>1, OneMore
      <4>. QED
        BY <3>2, <4>2 DEF Bit
    <3>3. CASE f.at # "populate"
      BY <1>8, <3>1, <3>3 DEF Populates, Bit
    <3>. QED
      BY <3>2, <3>3
  <2>. QED
    BY <1>5, <1>6, <2>1, <2>2 DEF Bit
<1>9. CASE MovesTo(f) /\ ~Construct
  <2>1. UNCHANGED populations /\ f.at # "populate"
    BY <1>9 DEF MovesTo
  <2>2. CASE BeginLabel
    <3>1. /\ Top.at = "cached" /\ f.at = "id" /\ ~DefineLabelLater /\ ~EndLabel
      BY <1>9, <2>2 DEF MovesTo, BeginLabel, DefineLabelLater, EndLabel, Catch, Tried, Running
    <3>. QED
      BY <1>0, <1>5, <1>6, <1>9, <2>1, <3>1, TotalsOf DEF Bit
  <2>3. CASE DefineLabelLater
    <3>1. /\ Top.at = "cached" /\ f.at = "defined" /\ ~EndLabel /\ Top.scoped
      BY <1>2, <1>9, <2>3 DEF MovesTo, BeginLabel, DefineLabelLater, EndLabel, Catch, Tried, Running,
         PlaceOK
    <3>. QED
      BY <1>0, <1>5, <1>6, <1>9, <2>1, <2>3, <3>1, TotalsOf DEF Bit
  <2>4. CASE EndLabel
    <3>1. Top.at = "id" /\ f.at = "defined" /\ ~DefineLabelLater
      BY <1>9, <2>4 DEF MovesTo, BeginLabel, DefineLabelLater, EndLabel, Catch, Tried, Running
    <3>2. Top.scoped
      <4>1. ~\E x \in Entity : CreateHit(x) \/ CreateTooDeep(x)
        BY <2>4 DEF EndLabel, CreateHit, CreateTooDeep, Running
      <4>. QED
        BY <3>1, <4>1 DEF TopAction, Construct, BeginLabel, DefineLabelLater, PopulateNow,
           Complained, PushGuard, DeferPart, Catch, Tried
    <3>. QED
      BY <1>0, <1>5, <1>6, <1>9, <2>1, <2>4, <3>1, <3>2, TotalsOf DEF Bit
  <2>5. CASE Catch
    <3>1. /\ Top.at \in {"populate", "member", "comments"} /\ f.at = "report"
          /\ ~DefineLabelLater /\ ~EndLabel
      BY <1>9, <2>5 DEF MovesTo, BeginLabel, DefineLabelLater, EndLabel, Catch, Tried, Running
    <3>. QED
      BY <1>0, <1>5, <1>6, <1>9, <2>1, <3>1, TotalsOf DEF Bit
  <2>. QED
    BY <1>9, <2>2, <2>3, <2>4, <2>5 DEF MovesTo
<1>10. CASE Construct
  <2>1. /\ Top.at = "new" /\ Top.scoped /\ ~DefineLabelLater /\ ~EndLabel
    BY <1>2, <1>10 DEF Construct, DefineLabelLater, EndLabel, PlaceOK
  <2>2. f.at = "cached" /\ UNCHANGED populations
    BY <1>1, <1>7, <1>8, <1>10, <2>1 DEF Stays, Populates, MovesTo, Construct, BeginLabel, Catch, Tried,
       PopulateNow, Complained, PushGuard, CreateHit, CreateTooDeep, DeferPart
  <2>. QED
    BY <1>0, <1>3, <1>4, <1>5, <1>10, <2>1, <2>2, TotalsOf DEF Bit
<1>. QED
  BY <1>1, <1>7, <1>8, <1>9, <1>10

\* What a step other than the end of a constructor may do: forget populations,
\* when nothing needs them or an exception has passed.
Owes(e) ==
  /\ DefinitionsOf(e)' <= DefinitionsOf(e) /\ PopulationsOf(e)' <= PopulationsOf(e)
  /\ phase' # "failed" => DefinitionsOf(e)' = DefinitionsOf(e)
  /\ phase' # "failed" /\ ~thrown' /\ e \in NeedsPopulation => PopulationsOf(e)' = PopulationsOf(e)

LEMMA ConservesOwes ==
  ASSUME ContextInv, [Next]_vars, NEW e \in Entity, Conserves(e)
  PROVE  Owes(e)
BY TotalsOf DEF Conserves, Owes

LEMMA TotalsOfLeave ==
  ASSUME ContextInv, PlacesInv, NEW e \in Entity,
         \/ ConstructKnown \/ PopulateNot \/ PopulateAfterLabel \/ PopulateDeferred
         \/ Return \/ Propagate \/ (EndLabel /\ ~Top.scoped)
  PROVE  Owes(e)
<1>0. [Next]_vars
  BY DEF Next
<1>1. frames # <<>> /\ Leave
  BY DEF ConstructKnown, PopulateNot, PopulateAfterLabel, PopulateDeferred, Return, Propagate,
     EndLabel, Running
<1>2. /\ Top \in Frame /\ Top.label \in Nat /\ PlaceOK(Top) /\ TypeOK
      /\ Top.at \notin {"member", "comments", "report"} => Top.of \in Entity
      /\ raised => thrown
  BY <1>1, TopPlace, FrameFields DEF PlacesInv, ContextInv
<1>. DEFINE here == Top.of = e
<1>3. /\ DefiningFrames(e)' + DefinesBit(Top, e) = DefiningFrames(e)
      /\ PopulatingFrames(e)' + PopulatesBit(Top, e) = PopulatingFrames(e)
  BY <1>1, CountsOfLeave
<1>4. /\ DefinesBit(Top, e) = Bit(here /\ Top.at \in {"cached", "id"})
      /\ PopulatesBit(Top, e) = Bit(here /\ \/ Top.at \in {"cached", "id"} /\ Top.scoped
                                            \/ Top.at \in {"defined", "complain", "location"})
  BY DEF DefinesBit, PopulatesBit
<1>5. UNCHANGED populateQueue => UNCHANGED <<QueuedDefines(e), QueuedPopulations(e)>>
  BY DEF QueuedDefines, QueuedPopulations, ToDefine, ToPopulate
<1>6. ASSUME NEW a \in Action, populateQueue' = Append(populateQueue, a)
      PROVE  /\ QueuedDefines(e)' = QueuedDefines(e) + QueuedDefineBit(a, e)
             /\ QueuedPopulations(e)' = QueuedPopulations(e) + QueuedPopulateBit(a, e)
  BY <1>6, CountsOfQueue
<1>7. CASE ConstructKnown \/ Return
  <2>1. /\ Top.at \in {"new", "populate", "later", "report", "member", "comments"}
        /\ UNCHANGED <<populateQueue, definitions, populations>>
    BY <1>7 DEF ConstructKnown, Return, trapFile
  <2>2. Conserves(e)
    BY <1>0, <1>3, <1>4, <1>5, <2>1, TotalsOf DEF Bit, Conserves
  <2>. QED
    BY <1>0, <2>2, ConservesOwes
<1>8. CASE PopulateNot
  <2>1. /\ Top.at = "defined" /\ Top.of \notin NeedsPopulation
        /\ UNCHANGED <<populateQueue, definitions, populations>>
    BY <1>8 DEF PopulateNot, trapFile
  <2>. QED
    BY <1>0, <1>3, <1>4, <1>5, <2>1, TotalsOf DEF Bit, Owes
<1>9. CASE PopulateAfterLabel \/ PopulateDeferred
  <2>1. PICK a : a = IF PopulateAfterLabel THEN Guarded("populate", Top.of, Top.label)
                                           ELSE Perform(Top.of, Top.label)
    OBVIOUS
  <2>2. /\ Top.at = "defined" /\ Top.of \in Entity /\ UNCHANGED <<definitions, populations>>
        /\ populateQueue' = Append(populateQueue, a)
    BY <1>2, <1>9, <2>1 DEF PopulateAfterLabel, PopulateDeferred, PopulateLater, trapFile
  <2>3. a \in Action /\ a.of = Top.of /\ a.do \in {"populate", "perform"}
    <3>1. Guarded("populate", Top.of, Top.label) \in Action
      BY <1>2, <2>2, GuardedIsAction
    <3>2. Perform(Top.of, Top.label) \in Action
      BY <1>2, <2>2 DEF Perform, Action
    <3>. QED
      BY <2>1, <3>1, <3>2 DEF Guarded, Perform
  <2>4. /\ QueuedDefineBit(a, e) = 0 /\ QueuedPopulateBit(a, e) = Bit(here)
    BY <2>3 DEF QueuedDefineBit, QueuedPopulateBit, Bit
  <2>5. /\ QueuedDefines(e)' = QueuedDefines(e) + QueuedDefineBit(a, e)
        /\ QueuedPopulations(e)' = QueuedPopulations(e) + QueuedPopulateBit(a, e)
    BY <1>6, <2>2, <2>3
  <2>6. DefinesBit(Top, e) = 0 /\ PopulatesBit(Top, e) = Bit(here) /\ Bit(here) \in Nat
    BY <1>4, <2>2 DEF Bit
  <2>7. definitions'[e] = definitions[e] /\ populations'[e] = populations[e]
    BY <2>2
  <2>8. /\ DefiningFrames(e)' = DefiningFrames(e)
        /\ QueuedDefines(e)' = QueuedDefines(e)
        /\ PopulatingFrames(e)' + QueuedPopulations(e)' = PopulatingFrames(e) + QueuedPopulations(e)
    <3>1. /\ DefiningFrames(e)' \in Nat /\ PopulatingFrames(e)' \in Nat
          /\ QueuedDefines(e) \in Nat /\ QueuedPopulations(e) \in Nat
      BY <1>0, TotalsOf
    <3>2. DefiningFrames(e)' + 0 = DefiningFrames(e) /\ QueuedDefines(e)' = QueuedDefines(e) + 0
      BY <1>3, <2>4, <2>5, <2>6
    <3>3. /\ PopulatingFrames(e)' + Bit(here) = PopulatingFrames(e)
          /\ QueuedPopulations(e)' = QueuedPopulations(e) + Bit(here)
      BY <1>3, <2>4, <2>5, <2>6
    <3>. QED
      BY <3>1, <3>2, <3>3 DEF Bit
  <2>9. /\ PopulationsOf(e) = populations[e] + PopulatingFrames(e) + QueuedPopulations(e)
        /\ PopulationsOf(e)' = populations'[e] + PopulatingFrames(e)' + QueuedPopulations(e)'
        /\ DefinitionsOf(e) = definitions[e] + DefiningFrames(e) + QueuedDefines(e)
        /\ DefinitionsOf(e)' = definitions'[e] + DefiningFrames(e)' + QueuedDefines(e)'
    BY <1>0, TotalsOf
  <2>10. /\ populations[e] \in Nat /\ PopulatingFrames(e) \in Nat /\ QueuedPopulations(e) \in Nat
         /\ PopulatingFrames(e)' \in Nat /\ QueuedPopulations(e)' \in Nat
    BY <1>0, TotalsOf
  <2>11. DefinitionsOf(e)' = DefinitionsOf(e)
    BY <2>7, <2>8, <2>9
  <2>12. PopulationsOf(e)' = PopulationsOf(e)
    BY <2>7, <2>8, <2>9, <2>10
  <2>13. Conserves(e)
    BY <2>11, <2>12 DEF Conserves
  <2>. QED
    BY <1>0, <2>13, ConservesOwes
<1>10. CASE Propagate
  <2>1. /\ Top.at \notin {"cached", "id"} /\ thrown'
        /\ UNCHANGED <<populateQueue, definitions, populations>>
    BY <1>2, <1>10 DEF Propagate, PlaceOK, trapFile
  <2>. QED
    BY <1>0, <1>3, <1>4, <1>5, <2>1, TotalsOf DEF Bit, Owes
<1>11. CASE EndLabel /\ ~Top.scoped
  <2>1. /\ Top.at = "id" /\ UNCHANGED <<populateQueue, populations>> /\ Top.of \in Entity
        /\ definitions' = [definitions EXCEPT ![Top.of] = @ + 1]
    BY <1>2, <1>11 DEF EndLabel
  <2>2. definitions \in [Entity -> Nat]
    BY <1>2 DEF TypeOK
  <2>3. definitions'[e] = definitions[e] + Bit(here)
    <3>1. definitions' = [definitions EXCEPT ![Top.of] = @ + 1] /\ Top.of \in Entity
      BY <2>1
    <3>. QED
      BY <2>2, <3>1 DEF Bit
  <2>4. Conserves(e)
    BY <1>0, <1>3, <1>4, <1>5, <1>11, <2>1, <2>3, TotalsOf DEF Bit, Conserves
  <2>. QED
    BY <1>0, <2>4, ConservesOwes
<1>. QED
  BY <1>7, <1>8, <1>9, <1>10, <1>11

LEMMA TotalsOfTask ==
  ASSUME ContextInv, PlacesInv, NEW e \in Entity,
         \/ Throw \/ CatchInPopulateAll \/ Fail \/ VisitMember \/ MembersVisited \/ Populated
         \/ CommentsExtracted \/ AllPopulated \/ UNCHANGED vars
  PROVE  Owes(e)
<1>0. [Next]_vars
  BY DEF Next
<1>1. UNCHANGED <<populateQueue, definitions, populations>>
  BY DEF Throw, CatchInPopulateAll, Fail, VisitMember, MembersVisited, Populated, CommentsExtracted,
     AllPopulated, vars, trapFile
<1>2. UNCHANGED <<QueuedDefines(e), QueuedPopulations(e)>>
  BY <1>1 DEF QueuedDefines, QueuedPopulations, ToDefine, ToPopulate
<1>3. CASE UNCHANGED frames
  <2>1. UNCHANGED <<DefiningFrames(e), PopulatingFrames(e)>>
    BY <1>3 DEF DefiningFrames, PopulatingFrames, Defining, Populating
  <2>2. Conserves(e)
    BY <1>0, <1>1, <1>2, <2>1, TotalsOf DEF Conserves
  <2>. QED
    BY <1>0, <2>2, ConservesOwes
<1>4. CASE Fail
  <2>1. frames' = <<>> /\ phase' = "failed"
    BY <1>4 DEF Fail
  <2>2. DefiningFrames(e)' = 0 /\ PopulatingFrames(e)' = 0
    BY <2>1, CountEmpty DEF DefiningFrames, PopulatingFrames
  <2>. QED
    BY <1>0, <1>1, <1>2, <2>1, <2>2, TotalsOf DEF Owes
<1>5. CASE \E place \in {"report", "member", "comments"} : \E todo :
             frames = <<>> /\ frames' = <<Call(place, NoEntity, todo)>>
  <2>1. PICK place, f :
          place \in {"report", "member", "comments"} /\ frames' = <<f>> /\ \E todo : f = Call(place, NoEntity, todo)
    BY <1>5
  <2>2. f.at = place /\ frames = <<>>
    BY <1>5, <2>1 DEF Call
  <2>3. f \in Frame
    <3>1. DOMAIN <<f>> = {1} /\ <<f>>[1] = f
      OBVIOUS
    <3>2. 1 \in DOMAIN frames' /\ frames'[1] = f /\ frames' \in Seq(Frame)
      BY <1>0, <2>1, <3>1, StepKeepsInv DEF ContextInv, TypeOK
    <3>. QED
      BY <3>2
  <2>4. DefiningFrames(e)' = DefiningFrames(e) /\ PopulatingFrames(e)' = PopulatingFrames(e)
    BY <2>1, <2>2, <2>3, CountsOfStart DEF DefinesBit, PopulatesBit, Bit
  <2>5. Conserves(e)
    BY <1>0, <1>1, <1>2, <2>4, TotalsOf DEF Conserves
  <2>. QED
    BY <1>0, <2>5, ConservesOwes
<1>6. UNCHANGED frames \/ Fail \/
      \E place \in {"report", "member", "comments"} : \E todo :
        frames = <<>> /\ frames' = <<Call(place, NoEntity, todo)>>
  BY DEF Throw, CatchInPopulateAll, HandlerOfPopulateAll, VisitMember, MembersVisited, Populated,
     CommentsExtracted, AllPopulated, Idle, vars
<1>. QED
  BY <1>3, <1>4, <1>5, <1>6

LEMMA TotalsOfRound ==
  ASSUME ContextInv, PlacesInv, NEW e \in Entity, PopulateNext
  PROVE  Owes(e)
<1>0. [Next]_vars
  BY DEF Next
<1>1. PICK a \in Action, k \in BOOLEAN :
        /\ a = Head(populateQueue) /\ frames = <<>> /\ populateQueue # <<>>
        /\ populateQueue' = Tail(populateQueue)
        /\ [Start(a) EXCEPT !.keyed = k] \in Frame
        /\ frames' = <<[Start(a) EXCEPT !.keyed = k]>>
        /\ populations' = IF a.do = "perform" /\ Behaviour[a.of] # "PushesLabel"
                            THEN [populations EXCEPT ![a.of] = @ + 1]
                            ELSE populations
  BY RoundOfPopulateAll
<1>2. PICK f : f = [Start(a) EXCEPT !.keyed = k]
  OBVIOUS
<1>3. /\ f \in Frame /\ f.of = a.of /\ f.scoped = FALSE /\ f.at = Start(a).at /\ a.of \in Entity
      /\ a.do \in {"define", "populate", "perform", "later"}
  BY <1>1, <1>2, StartFrame DEF Frame, Action
<1>4. /\ f.at \in {"cached", "defined", "later", "location", "populate"}
      /\ f.at = "cached" <=> a.do = "define"
      /\ f.at = "defined" <=> a.do = "populate"
      /\ f.at = "location" <=> a.do = "perform" /\ Behaviour[a.of] = "PushesLabel"
  BY <1>3, StartFrame, StartPlace
<1>5. /\ DefiningFrames(e) = 0 /\ PopulatingFrames(e) = 0
      /\ DefiningFrames(e)' = DefinesBit(f, e) /\ PopulatingFrames(e)' = PopulatesBit(f, e)
  BY <1>1, <1>2, <1>3, CountsOfStart
<1>6. /\ QueuedDefines(e) = QueuedDefines(e)' + QueuedDefineBit(a, e)
      /\ QueuedPopulations(e) = QueuedPopulations(e)' + QueuedPopulateBit(a, e)
  BY <1>1, CountsOfRound
<1>. DEFINE begins == a.do = "perform" /\ Behaviour[a.of] # "PushesLabel" /\ a.of = e
<1>7. populations'[e] = populations[e] + Bit(begins)
  <2>1. populations \in [Entity -> Nat] /\ populations[e] \in Nat
    BY DEF ContextInv, TypeOK
  <2>2. CASE a.do = "perform" /\ Behaviour[a.of] # "PushesLabel"
    <3>0. populations' = [populations EXCEPT ![a.of] = @ + 1]
      BY <1>1, <2>2
    <3>1. populations'[e] = populations[e] + Bit(a.of = e)
      BY <1>3, <2>1, <3>0, OneMore
    <3>. QED
      BY <2>2, <3>1
  <2>3. CASE ~(a.do = "perform" /\ Behaviour[a.of] # "PushesLabel")
    BY <1>1, <2>1, <2>3 DEF Bit
  <2>. QED
    BY <2>2, <2>3
<1>8. UNCHANGED definitions
  BY DEF PopulateNext
<1>9. Conserves(e)
  BY <1>0, <1>3, <1>4, <1>5, <1>6, <1>7, <1>8, TotalsOf
     DEF Conserves, Bit, DefinesBit, PopulatesBit, QueuedDefineBit, QueuedPopulateBit
<1>. QED
  BY <1>0, <1>9, ConservesOwes

LEMMA TotalsOfNew ==
  ASSUME ContextInv, PlacesInv, NEW e \in Entity, \E x \in Entity : CreateNew(x)
  PROVE  Owes(e)
<1>0. [Next]_vars
  BY DEF Next
<1>1. PICK x \in Entity : CreateNew(x)
  OBVIOUS
<1>2. PICK h, c : h = [Top EXCEPT !.left = @ \ {x}] /\ c = Call("new", x, Uses[x]["new"])
  OBVIOUS
<1>3. /\ frames # <<>> /\ nextLabel \in Nat /\ UNCHANGED <<populateQueue, definitions, populations>>
  BY <1>1 DEF CreateNew, Running, trapFile, ContextInv, TypeOK
<1>4. h \in Frame /\ h.at = Top.at /\ h.of = Top.of /\ h.scoped = Top.scoped
  BY <1>2, <1>3, TopPlace DEF Frame
<1>5. c \in Frame /\ c.at = "new"
  BY <1>2, Places, Constants DEF Call, Frame, Section
<1>6. PICK f : /\ frames' = Append(WithTop(frames, h), f)
               /\ f \in {[c EXCEPT !.scoped = TRUE],
                        [c EXCEPT !.scoped = TRUE, !.label = nextLabel]}
  BY <1>1, <1>2 DEF CreateNew, Created
<1>7. f \in Frame /\ f.at = "new"
  BY <1>3, <1>5, <1>6 DEF Frame
<1>8. UNCHANGED <<DefiningFrames(e), PopulatingFrames(e)>>
  BY <1>3, <1>4, <1>6, <1>7, CountsOfPush
<1>9. UNCHANGED <<QueuedDefines(e), QueuedPopulations(e)>>
  BY <1>3 DEF QueuedDefines, QueuedPopulations, ToDefine, ToPopulate
<1>10. Conserves(e)
  BY <1>0, <1>3, <1>8, <1>9, TotalsOf DEF Conserves
<1>. QED
  BY <1>0, <1>10, ConservesOwes

LEMMA TotalsOfStep ==
  ASSUME ContextInv, PlacesInv, [Next]_vars, NEW e \in Entity
  PROVE  \/ /\ Construct
            /\ DefinitionsOf(e)' = DefinitionsOf(e) + Bit(Top.of = e)
            /\ PopulationsOf(e)' = PopulationsOf(e) + Bit(Top.of = e)
         \/ Owes(e) /\ UNCHANGED <<cache, home>>
<1>1. CASE Construct
  BY <1>1, TotalsOfTop DEF TopAction
<1>2. CASE ~Construct
  <2>1. UNCHANGED <<cache, home>>
    <3>1. CASE UNCHANGED vars
      BY <3>1 DEF vars
    <3>2. CASE Next
      BY <1>2, <3>2 DEF Next, CreateHit, CreateTooDeep, CreateNew, ConstructKnown, BeginLabel,
         DefineLabelLater, EndLabel, PopulateNot, PopulateAfterLabel, PopulateDeferred, PopulateNow,
         Complained, PushGuard, DeferPart, Return, Throw, Catch, Propagate, CatchInPopulateAll, Fail,
         VisitMember, MembersVisited, PopulateNext, Populated, CommentsExtracted, AllPopulated
    <3>. QED
      BY <3>1, <3>2
  <2>2. TopAction => Owes(e)
    BY <1>2, TotalsOfTop, ConservesOwes
  <2>3. CASE EndLabel
    BY <2>1, <2>2, <2>3, TotalsOfLeave DEF TopAction
  <2>4. CASE \/ Throw \/ CatchInPopulateAll \/ Fail \/ VisitMember \/ MembersVisited \/ Populated
             \/ CommentsExtracted \/ AllPopulated \/ UNCHANGED vars
    BY <2>1, <2>4, TotalsOfTask
  <2>5. CASE \/ ConstructKnown \/ PopulateNot \/ PopulateAfterLabel \/ PopulateDeferred
             \/ Return \/ Propagate
    BY <2>1, <2>5, TotalsOfLeave
  <2>6. CASE \E x \in Entity : CreateHit(x) \/ CreateTooDeep(x) \/ CreateNew(x)
    BY <2>1, <2>2, <2>6, TotalsOfNew DEF TopAction
  <2>7. CASE \/ BeginLabel \/ DefineLabelLater \/ PopulateNow \/ Complained \/ PushGuard \/ DeferPart
             \/ Catch
    BY <2>1, <2>2, <2>7 DEF TopAction
  <2>. QED
    BY <1>2, <2>1, <2>3, <2>4, <2>5, <2>6, <2>7, TotalsOfRound DEF Next
<1>. QED
  BY <1>1, <1>2

\* A task that has failed has failed for good, and an exception is remembered.
LEMMA FailedForGood ==
  ASSUME [Next]_vars
  PROVE  (phase = "failed" => phase' = "failed") /\ (thrown => thrown')
<1>1. CASE UNCHANGED vars
  BY <1>1 DEF vars
<1>2. ASSUME NEW e \in Entity, CreateHit(e) \/ CreateTooDeep(e) \/ CreateNew(e)
      PROVE  phase' = phase /\ (thrown => thrown')
  BY <1>2 DEF CreateHit, CreateTooDeep, CreateNew, task
<1>3. CASE \/ ConstructKnown \/ Construct \/ BeginLabel \/ DefineLabelLater \/ EndLabel \/ PopulateNot
           \/ PopulateAfterLabel \/ PopulateDeferred \/ PopulateNow \/ Complained \/ PushGuard
  BY <1>3 DEF ConstructKnown, Construct, BeginLabel, DefineLabelLater, EndLabel, PopulateNot,
     PopulateAfterLabel, PopulateDeferred, PopulateNow, Complained, PushGuard, task
<1>4. CASE \/ DeferPart \/ Return \/ Throw \/ Catch \/ Propagate \/ CatchInPopulateAll \/ Fail
           \/ PopulateNext
  BY <1>4 DEF DeferPart, Return, Throw, Catch, Propagate, CatchInPopulateAll, Fail, PopulateNext, task
<1>5. CASE VisitMember \/ MembersVisited \/ Populated \/ CommentsExtracted \/ AllPopulated
  BY <1>5 DEF VisitMember, MembersVisited, Populated, CommentsExtracted, AllPopulated
<1>. QED
  BY <1>1, <1>2, <1>3, <1>4, <1>5 DEF Next

\* What a constructor that has returned puts into the cache.
LEMMA ConstructCaches ==
  ASSUME ContextInv, Construct
  PROVE  /\ frames # <<>> /\ Top.at = "new" /\ Top.of \in Entity /\ tagStack' = tagStack
         /\ cache' = [cache EXCEPT ![Top.of] = IF Top.of \in SecondCache THEN nextLabel ELSE Top.label]
         /\ home' = [home EXCEPT ![Top.of] = tagStack]
         /\ cache \in [Entity -> Nat] /\ home \in [Entity -> Seq(Entity)]
         /\ Top.of \notin SecondCache \/ cache[Top.of] = 0
         /\ UNCHANGED <<fromSource, populateQueue>>
BY TopIsFrame DEF Construct, Running, ContextInv, TypeOK, task

LEMMA InitOwes ==
  ASSUME Init
  PROVE  /\ PlacesInv /\ AtLeastOnce /\ AtMostOnce
         /\ \A e \in Entity : DefinitionsOf(e) = 0 /\ PopulationsOf(e) = 0
<1>1. DOMAIN frames = {} /\ frames = <<>> /\ populateQueue = <<>> /\ ~raised /\ phase = "extract"
  BY DEF Init
<1>2. PlacesInv
  BY <1>1 DEF PlacesInv
<1>3. ASSUME NEW e \in Entity PROVE DefinitionsOf(e) = 0 /\ PopulationsOf(e) = 0 /\ cache[e] = 0
  <2>1. definitions[e] = 0 /\ populations[e] = 0 /\ cache[e] = 0
    BY DEF Init
  <2>2. \A P : CountIn(frames, P) = 0 /\ CountIn(populateQueue, P) = 0
    BY <1>1, CountEmpty
  <2>. QED
    BY <2>1, <2>2 DEF DefinitionsOf, PopulationsOf
<1>4. AtLeastOnce
  BY <1>3, ContextAssumption DEF AtLeastOnce
<1>5. nextLabel # 0
  BY DEF Init
<1>6. AtMostOnce
  BY <1>1, <1>3, <1>5 DEF AtMostOnce
<1>. QED
  BY <1>2, <1>3, <1>4, <1>6

\* What has been cached stays owed until it is there.
LEMMA StepKeepsAtLeastOnce ==
  ASSUME ContextInv, PlacesInv, AtLeastOnce, [Next]_vars
  PROVE  AtLeastOnce'
<1>1. SUFFICES ASSUME phase' # "failed"
               PROVE  /\ \A e \in Entity : cache'[e] # 0 => DefinitionsOf(e)' >= 1
                      /\ ~thrown' => \A e \in NeedsPopulation : cache'[e] # 0 => PopulationsOf(e)' >= 1
  BY DEF AtLeastOnce
<1>2. phase # "failed" /\ (~thrown' => ~thrown)
  BY <1>1, FailedForGood
<1>3. ASSUME NEW e \in Entity, cache'[e] # 0
      PROVE  /\ DefinitionsOf(e)' >= 1
             /\ ~thrown' /\ e \in NeedsPopulation => PopulationsOf(e)' >= 1
  <2>1. DefinitionsOf(e) \in Nat /\ PopulationsOf(e) \in Nat
    BY CountsAreNat
  <2>2. CASE Construct /\ Top.of = e
    <3>1. \/ /\ DefinitionsOf(e)' = DefinitionsOf(e) + Bit(Top.of = e)
             /\ PopulationsOf(e)' = PopulationsOf(e) + Bit(Top.of = e)
          \/ UNCHANGED <<cache, home>>
      BY TotalsOfStep
    <3>2. CASE UNCHANGED cache
      <4>1. /\ DefinitionsOf(e)' = DefinitionsOf(e) + Bit(Top.of = e)
            /\ PopulationsOf(e)' = PopulationsOf(e) + Bit(Top.of = e)
        BY <2>2, TotalsOfTop DEF TopAction
      <4>. QED
        BY <2>1, <2>2, <4>1 DEF Bit
    <3>. QED
      BY <2>1, <2>2, <3>1, <3>2 DEF Bit
  <2>3. CASE Construct /\ Top.of # e
    <3>1. /\ DefinitionsOf(e)' = DefinitionsOf(e) + Bit(Top.of = e)
          /\ PopulationsOf(e)' = PopulationsOf(e) + Bit(Top.of = e)
      BY <2>3, TotalsOfTop DEF TopAction
    <3>2. cache'[e] = cache[e]
      BY <2>3, ConstructCaches
    <3>. QED
      BY <1>2, <1>3, <2>1, <2>3, <3>1, <3>2 DEF Bit, AtLeastOnce
  <2>4. CASE ~Construct
    <3>1. Owes(e) /\ UNCHANGED cache
      BY <2>4, TotalsOfStep
    <3>. QED
      BY <1>1, <1>2, <1>3, <3>1 DEF Owes, AtLeastOnce
  <2>. QED
    BY <2>2, <2>3, <2>4
<1>4. NeedsPopulation \subseteq Entity
  BY ContextAssumption
<1>. QED
  BY <1>3, <1>4

\* ContextInv, PlacesInv and AtLeastOnce hold always.
THEOREM OwedInvariant == Spec => [](ContextInv /\ PlacesInv /\ AtLeastOnce)
<1>1. Init => ContextInv /\ PlacesInv /\ AtLeastOnce
  BY InitHasInv, InitOwes
<1>2. ContextInv /\ PlacesInv /\ AtLeastOnce /\ [Next]_vars
        => (ContextInv /\ PlacesInv /\ AtLeastOnce)'
  BY StepKeepsInv, StepKeepsPlaces, StepKeepsAtLeastOnce
<1>. QED
  BY <1>1, <1>2, PTL DEF Spec

\* When the task is done nothing is on the way any more.
LEMMA DoneIsEmpty ==
  ASSUME ContextInv, PlacesInv, phase = "done", NEW e \in Entity
  PROVE  DefinitionsOf(e) = definitions[e] /\ PopulationsOf(e) = populations[e]
<1>1. frames = <<>> /\ populateQueue = <<>>
  BY DEF PlacesInv
<1>2. \A P : CountIn(frames, P) = 0 /\ CountIn(populateQueue, P) = 0
  BY <1>1, CountEmpty
<1>3. definitions[e] \in Nat /\ populations[e] \in Nat
  BY CountsAreNat
<1>. QED
  BY <1>2, <1>3 DEF DefinitionsOf, PopulationsOf

\* When the trap file is closed after a regular end, every label that was handed
\* out for an entity is defined in it, whatever ids and populations have thrown,
\* for every program graph (Context.DefineLabel, Context.PopulateAll).
THEOREM NoLabelWithoutDefinition == Spec => []LabelsAreDefined
<1>1. ContextInv /\ PlacesInv /\ AtLeastOnce => LabelsAreDefined
  BY DoneIsEmpty DEF AtLeastOnce, LabelsAreDefined
<1>. QED
  BY <1>1, OwedInvariant, PTL

\* Nor is an entity left without its description when nothing has thrown
\* (Context.Populate, Context.PopulateAll).
THEOREM NothingUnpopulated == Spec => []EverythingIsPopulated
<1>1. NeedsPopulation \subseteq Entity
  BY ContextAssumption
<1>2. ContextInv /\ PlacesInv /\ AtLeastOnce => EverythingIsPopulated
  BY <1>1, DoneIsEmpty DEF AtLeastOnce, EverythingIsPopulated
<1>. QED
  BY <1>2, OwedInvariant, PTL

-----------------------------------------------------------------------------
(* Not more than once.                                                     *)

\* The frames after a step: those below the top stay, and the top is replaced,
\* leaves or gets a constructor on it; on the empty stack one frame starts.
Below(i) == i \in 1 .. Len(frames) - 1 /\ frames'[i] = frames[i]

OnceTop(i, f) == frames # <<>> /\ i = Len(frames) /\ frames'[i] = f

LEMMA FramesAfterTop ==
  ASSUME ContextInv, frames # <<>>, NEW f \in Frame, frames' = WithTop(frames, f)
  PROVE  \A i \in DOMAIN frames' : Below(i) \/ OnceTop(i, f)
<1>1. frames \in Seq(Frame)
  BY DEF ContextInv, TypeOK
<1>2. /\ Len(frames) \in Nat /\ DOMAIN frames' = 1 .. Len(frames)
      /\ \A i \in 1 .. Len(frames) - 1 : frames'[i] = frames[i]
      /\ frames'[Len(frames)] = f
  BY <1>1, TopReplaced
<1>3. ASSUME NEW i \in 1 .. Len(frames) PROVE i = Len(frames) \/ i \in 1 .. Len(frames) - 1
  <2>1. Len(frames) \in Nat /\ i \in 1 .. Len(frames)
    BY <1>2
  <2>. QED
    BY <2>1
<1>. QED
  BY <1>2, <1>3 DEF Below, OnceTop

LEMMA FramesAfterLeave ==
  ASSUME ContextInv, frames # <<>>, Leave
  PROVE  \A i \in DOMAIN frames' : Below(i)
<1>1. frames \in Seq(Frame)
  BY DEF ContextInv, TypeOK
<1>. QED
  BY <1>1, LastFront DEF Leave, Below

LEMMA FramesAfterNew ==
  ASSUME ContextInv, PlacesInv, NEW x \in Entity, CreateNew(x)
  PROVE  /\ frames # <<>>
         /\ \E h, f \in Frame :
              /\ h.at = Top.at /\ h.of = Top.of /\ h.label = Top.label /\ h.scoped = Top.scoped
              /\ f.at = "new" /\ f.of = x /\ (x \notin SecondCache => f.label = nextLabel)
              /\ \A i \in DOMAIN frames' :
                   Below(i) \/ OnceTop(i, h) \/ (i = Len(frames) + 1 /\ frames'[i] = f)
<1>1. PICK h, c : h = [Top EXCEPT !.left = @ \ {x}] /\ c = Call("new", x, Uses[x]["new"])
  OBVIOUS
<1>2. /\ frames # <<>> /\ nextLabel \in Nat /\ frames \in Seq(Frame)
  BY DEF CreateNew, Running, ContextInv, TypeOK
<1>3. h \in Frame /\ h.at = Top.at /\ h.of = Top.of /\ h.label = Top.label /\ h.scoped = Top.scoped
  BY <1>1, <1>2, TopPlace DEF Frame
<1>4. c \in Frame /\ c.at = "new" /\ c.of = x
  BY <1>1, Places, Constants DEF Call, Frame, Section
<1>5. PICK f : /\ frames' = Append(WithTop(frames, h), f)
               /\ f = IF x \in SecondCache THEN [c EXCEPT !.scoped = TRUE]
                                           ELSE [c EXCEPT !.scoped = TRUE, !.label = nextLabel]
  BY <1>1 DEF CreateNew, Created
<1>6. f \in Frame /\ f.at = "new" /\ f.of = x /\ (x \notin SecondCache => f.label = nextLabel)
  BY <1>2, <1>4, <1>5 DEF Frame
<1>. DEFINE n == Len(frames)
            t == WithTop(frames, h)
<1>7. n \in Nat /\ n >= 1
  BY <1>2, LastFront
<1>8. /\ t \in Seq(Frame) /\ Len(t) = n /\ t[n] = h
      /\ \A i \in 1 .. n - 1 : t[i] = frames[i]
  BY <1>2, <1>3, <1>7, ReplaceLast
<1>. HIDE DEF t
<1>9. /\ DOMAIN Append(t, f) = 1 .. n + 1
      /\ \A i \in 1 .. n : Append(t, f)[i] = t[i]
      /\ Append(t, f)[n + 1] = f
  BY <1>6, <1>8, AppendLast
<1>10. frames' = Append(t, f)
  BY <1>5 DEF t
<1>11. ASSUME NEW i \in 1 .. n + 1
       PROVE  Below(i) \/ OnceTop(i, h) \/ (i = Len(frames) + 1 /\ frames'[i] = f)
  <2>1. CASE i = n + 1
    BY <1>9, <1>10, <2>1
  <2>2. CASE i = n
    <3>1. i \in 1 .. n
      BY <1>7, <2>2
    <3>2. frames'[i] = h
      BY <1>8, <1>9, <1>10, <2>2, <3>1
    <3>. QED
      BY <1>2, <2>2, <3>2 DEF OnceTop
  <2>3. CASE i \in 1 .. n - 1
    <3>1. i \in 1 .. n
      BY <1>7, <2>3
    <3>2. frames'[i] = frames[i]
      BY <1>8, <1>9, <1>10, <2>3, <3>1
    <3>. QED
      BY <2>3, <3>2 DEF Below
  <2>4. i = n + 1 \/ i = n \/ i \in 1 .. n - 1
    BY <1>7
  <2>. QED
    BY <2>1, <2>2, <2>3, <2>4
<1>12. \A i \in DOMAIN frames' :
         Below(i) \/ OnceTop(i, h) \/ (i = Len(frames) + 1 /\ frames'[i] = f)
  BY <1>9, <1>10, <1>11
<1>. QED
  BY <1>2, <1>3, <1>6, <1>12

\* Which actions there are for the stack.
LeaveAction ==
  \/ ConstructKnown \/ PopulateNot \/ PopulateAfterLabel \/ PopulateDeferred
  \/ Return \/ Propagate \/ (EndLabel /\ ~Top.scoped)

TaskAction ==
  \/ Throw \/ CatchInPopulateAll \/ Fail \/ VisitMember \/ MembersVisited \/ Populated
  \/ CommentsExtracted \/ AllPopulated \/ UNCHANGED vars

LEMMA KindsOfAction ==
  ASSUME [Next]_vars
  PROVE  TopAction \/ LeaveAction \/ TaskAction \/ PopulateNext \/ \E x \in Entity : CreateNew(x)
<1>1. CASE EndLabel
  BY <1>1 DEF TopAction, LeaveAction
<1>2. CASE UNCHANGED vars
  BY <1>2 DEF TaskAction
<1>3. CASE \E x \in Entity : CreateHit(x) \/ CreateTooDeep(x) \/ CreateNew(x)
  BY <1>3 DEF TopAction
<1>. QED
  BY <1>1, <1>2, <1>3 DEF Next, TopAction, LeaveAction, TaskAction

LEMMA LeaveActionLeaves ==
  ASSUME LeaveAction
  PROVE  /\ frames # <<>> /\ Leave /\ UNCHANGED <<fromSource, cache, home, nextLabel>>
         /\ Top.at # "defined" => UNCHANGED populateQueue
         /\ UNCHANGED populations
BY DEF LeaveAction, ConstructKnown, PopulateNot, PopulateAfterLabel, PopulateDeferred, Return, Propagate,
   EndLabel, Running, task, trapFile

\* What the task itself does starts a frame of its own, drops the stack or
\* leaves it as it is.
LEMMA FramesAfterTask ==
  ASSUME ContextInv, TaskAction
  PROVE  /\ UNCHANGED <<fromSource, cache, home, nextLabel, tagStack, populateQueue, populations>>
         /\ \/ UNCHANGED frames
            \/ \A i \in DOMAIN frames' : frames'[i].at \in {"report", "member", "comments"}
<1>1. UNCHANGED <<fromSource, cache, home, nextLabel, tagStack, populateQueue, populations>>
  BY DEF TaskAction, Throw, CatchInPopulateAll, Fail, VisitMember, MembersVisited, Populated,
     CommentsExtracted, AllPopulated, vars, trapFile, task
<1>2. \/ UNCHANGED frames \/ frames' = <<>>
      \/ \E place \in {"report", "member", "comments"} : \E todo : frames' = <<Call(place, NoEntity, todo)>>
  BY DEF TaskAction, Throw, CatchInPopulateAll, HandlerOfPopulateAll, Fail, VisitMember, MembersVisited,
     Populated, CommentsExtracted, AllPopulated, vars
<1>3. CASE \E place \in {"report", "member", "comments"} : \E todo : frames' = <<Call(place, NoEntity, todo)>>
  <2>1. PICK place, f : place \in {"report", "member", "comments"} /\ frames' = <<f>> /\ f.at = place
    BY <1>3 DEF Call
  <2>2. DOMAIN <<f>> = {1} /\ <<f>>[1] = f
    OBVIOUS
  <2>3. \A i \in DOMAIN frames' : frames'[i].at \in {"report", "member", "comments"}
    BY <2>1, <2>2
  <2>. QED
    BY <1>1, <2>3
<1>4. CASE frames' = <<>>
  <2>1. DOMAIN <<>> = {}
    OBVIOUS
  <2>. QED
    BY <1>1, <1>4, <2>1
<1>. QED
  BY <1>1, <1>2, <1>3, <1>4

LEMMA FramesAfterRound ==
  ASSUME ContextInv, PopulateNext
  PROVE  /\ UNCHANGED <<fromSource, cache, home, nextLabel>>
         /\ \A i \in DOMAIN frames' :
              frames'[i].at \in {"cached", "defined", "later", "location", "populate"}
<1>1. PICK a \in Action, k \in BOOLEAN :
        /\ [Start(a) EXCEPT !.keyed = k] \in Frame
        /\ frames' = <<[Start(a) EXCEPT !.keyed = k]>>
  BY RoundOfPopulateAll
<1>2. PICK f : f = [Start(a) EXCEPT !.keyed = k]
  OBVIOUS
<1>3. f.at \in {"cached", "defined", "later", "location", "populate"}
  BY <1>1, <1>2, StartFrame DEF Frame
<1>4. DOMAIN <<f>> = {1} /\ <<f>>[1] = f
  OBVIOUS
<1>. QED
  BY <1>1, <1>2, <1>3, <1>4 DEF PopulateNext, task

\* Which constructors run after a step.
LEMMA Constructors ==
  ASSUME ContextInv, PlacesInv, [Next]_vars, NEW i \in DOMAIN frames', frames'[i].at = "new"
  PROVE  \/ /\ i \in DOMAIN frames /\ frames[i].at = "new" /\ frames[i].of = frames'[i].of
            /\ frames[i].label = frames'[i].label
            /\ Construct => i # Len(frames)
         \/ /\ ~Construct
            /\ frames'[i].of \notin SecondCache =>
                 cache[frames'[i].of] = 0 /\ frames'[i].label = nextLabel
<1>0. frames \in Seq(Frame)
  BY DEF ContextInv, TypeOK
<1>1. /\ Len(frames) \in Nat /\ DOMAIN frames = 1 .. Len(frames)
      /\ frames # <<>> => Len(frames) \in DOMAIN frames /\ Top = frames[Len(frames)]
      /\ Below(i) => i \in DOMAIN frames /\ i # Len(frames)
  <2>1. Len(frames) \in Nat /\ DOMAIN frames = 1 .. Len(frames)
    BY <1>0
  <2>2. frames # <<>> => Len(frames) >= 1 /\ Top = frames[Len(frames)]
    BY <1>0, LastFront DEF Top
  <2>3. Below(i) => i \in 1 .. Len(frames) - 1
    BY DEF Below
  <2>. QED
    BY <2>1, <2>2, <2>3
<1>2. CASE TopAction
  <2>1. PICK f : OnTop(f) /\ (Stays(f) \/ Populates(f) \/ MovesTo(f))
    BY <1>2, TopIsReplaced
  <2>2. frames # <<>> /\ f \in Frame /\ frames' = WithTop(frames, f) /\ f.of = Top.of
    BY <1>2, <2>1, TopIsReplaced DEF OnTop
  <2>3. Below(i) \/ OnceTop(i, f)
    BY <2>2, FramesAfterTop
  <2>4. CASE Below(i)
    BY <1>1, <2>4 DEF Below
  <2>5. CASE OnceTop(i, f)
    <3>1. f.at = "new" /\ i = Len(frames)
      BY <2>5 DEF OnceTop
    <3>2. Stays(f)
      BY <2>1, <3>1 DEF Populates, MovesTo
    <3>3. f.at = Top.at /\ f.label = Top.label /\ ~Construct
      BY <3>2 DEF Stays, Construct, CreateHit, CreateTooDeep, DeferPart
    <3>. QED
      BY <1>1, <2>2, <2>5, <3>1, <3>3 DEF OnceTop
  <2>. QED
    BY <2>3, <2>4, <2>5
<1>3. CASE LeaveAction
  <2>1. Below(i)
    BY <1>3, LeaveActionLeaves, FramesAfterLeave
  <2>. QED
    BY <1>1, <2>1 DEF Below
<1>4. CASE TaskAction
  <2>1. UNCHANGED frames
    BY <1>4, FramesAfterTask
  <2>2. ~Construct
    <3>1. UNCHANGED cache
      BY <1>4, FramesAfterTask
    <3>2. ASSUME Construct PROVE FALSE
      <4>1. frames # <<>> /\ Top.at = "new"
        BY <3>2, ConstructCaches
      <4>2. PICK f : OnTop(f) /\ (Stays(f) \/ Populates(f) \/ MovesTo(f))
        BY <3>2, TopIsReplaced DEF TopAction
      <4>3. f.at = "cached"
        BY <3>2, <4>1, <4>2 DEF Stays, Populates, MovesTo, Construct, CreateHit, CreateTooDeep,
           DeferPart, BeginLabel, DefineLabelLater, EndLabel, PopulateNow, Complained, PushGuard,
           Catch, Tried
      <4>4. /\ frames' = WithTop(frames, f) /\ f \in Frame
        BY <4>2 DEF OnTop
      <4>5. frames'[Len(frames)] = f
        BY <1>0, <4>1, <4>4, TopReplaced
      <4>. QED
        BY <1>1, <2>1, <4>1, <4>3, <4>5
    <3>. QED
      BY <3>2
  <2>. QED
    BY <2>1, <2>2
<1>5. CASE PopulateNext
  BY <1>5, FramesAfterRound
<1>6. CASE \E x \in Entity : CreateNew(x)
  <2>1. PICK x \in Entity : CreateNew(x)
    BY <1>6
  <2>2. ~Construct /\ (x \notin SecondCache => cache[x] = 0)
    BY <2>1 DEF CreateNew, Construct, IsHit
  <2>3. PICK h \in Frame, f \in Frame :
          /\ h.at = Top.at /\ h.of = Top.of /\ h.label = Top.label /\ h.scoped = Top.scoped
          /\ f.at = "new" /\ f.of = x /\ (x \notin SecondCache => f.label = nextLabel)
          /\ \A j \in DOMAIN frames' :
               Below(j) \/ OnceTop(j, h) \/ (j = Len(frames) + 1 /\ frames'[j] = f)
    BY <2>1, FramesAfterNew
  <2>4. CASE Below(i)
    BY <1>1, <2>4 DEF Below
  <2>5. CASE OnceTop(i, h)
    BY <1>1, <2>2, <2>3, <2>5 DEF OnceTop
  <2>6. CASE frames'[i] = f
    BY <2>2, <2>3, <2>6
  <2>. QED
    BY <2>3, <2>4, <2>5, <2>6
<1>. QED
  BY <1>2, <1>3, <1>4, <1>5, <1>6, KindsOfAction

\* While no constructor comes back to its entity, nothing is owed twice.
LEMMA StepKeepsAtMostOnce ==
  ASSUME ContextInv, PlacesInv, AtMostOnce, ConstructorsDoNotNest, [Next]_vars
  PROVE  AtMostOnce'
<1>1. TypeOK /\ frames \in Seq(Frame) /\ nextLabel \in Nat /\ nextLabel # 0
  BY DEF ContextInv, TypeOK, AtMostOnce
<1>2. nextLabel' # 0
  <2>1. CASE TopAction
    <3>1. nextLabel' \in {nextLabel, nextLabel + 1}
      BY <2>1 DEF TopAction, CreateHit, CreateTooDeep, Construct, BeginLabel, DefineLabelLater, EndLabel,
         PopulateNow, Complained, PushGuard, DeferPart, Catch
    <3>. QED
      BY <1>1, <3>1
  <2>2. CASE \E x \in Entity : CreateNew(x)
    <3>1. nextLabel' \in {nextLabel, nextLabel + 1}
      BY <2>2 DEF CreateNew
    <3>. QED
      BY <1>1, <3>1
  <2>3. CASE LeaveAction \/ TaskAction \/ PopulateNext
    BY <1>1, <2>3, LeaveActionLeaves, FramesAfterTask, FramesAfterRound
  <2>. QED
    BY <2>1, <2>2, <2>3, KindsOfAction
\* The constructor that returns is the only one of its entity.
<1>3. ASSUME Construct
      PROVE  /\ Len(frames) \in DOMAIN frames /\ Top = frames[Len(frames)]
             /\ cache[Top.of] = 0 /\ cache'[Top.of] # 0
             /\ DefinitionsOf(Top.of) = 0 /\ PopulationsOf(Top.of) = 0
  <2>1. /\ frames # <<>> /\ Top.at = "new" /\ Top.of \in Entity
        /\ cache' = [cache EXCEPT ![Top.of] = IF Top.of \in SecondCache THEN nextLabel ELSE Top.label]
        /\ cache \in [Entity -> Nat]
        /\ Top.of \notin SecondCache \/ cache[Top.of] = 0
    BY <1>3, ConstructCaches
  <2>2. Len(frames) \in DOMAIN frames /\ Top = frames[Len(frames)]
    <3>1. Len(frames) \in Nat /\ Len(frames) >= 1 /\ DOMAIN frames = 1 .. Len(frames)
          /\ Top = frames[Len(frames)]
      BY <1>1, <2>1, LastFront DEF Top
    <3>. QED
      BY <3>1
  <2>3. Top.of \notin SecondCache => cache[Top.of] = 0 /\ Top.label # 0
    BY <2>1, <2>2 DEF AtMostOnce
  <2>4. cache[Top.of] = 0 /\ cache'[Top.of] # 0
    BY <1>1, <2>1, <2>3
  <2>. QED
    BY <2>1, <2>2, <2>4 DEF AtMostOnce
<1>4. ASSUME NEW i \in DOMAIN frames', frames'[i].at = "new", frames'[i].of \notin SecondCache
      PROVE  cache'[frames'[i].of] = 0 /\ frames'[i].label # 0
  <2>1. \/ /\ i \in DOMAIN frames /\ frames[i].at = "new" /\ frames[i].of = frames'[i].of
           /\ frames[i].label = frames'[i].label
           /\ Construct => i # Len(frames)
        \/ /\ ~Construct
           /\ frames'[i].of \notin SecondCache =>
                cache[frames'[i].of] = 0 /\ frames'[i].label = nextLabel
    BY <1>4, Constructors
  <2>2. frames'[i].label # 0 /\ cache[frames'[i].of] = 0
    BY <1>1, <1>4, <2>1 DEF AtMostOnce
  <2>3. CASE ~Construct
    <3>1. ContextInv'
      BY StepKeepsInv
    <3>2. frames'[i].of \in Entity
      BY <1>4, <3>1 DEF ContextInv, FramesInv, FramesOfEntities
    <3>3. UNCHANGED cache
      BY <2>3, <3>2, TotalsOfStep
    <3>. QED
      BY <2>2, <3>3
  <2>4. CASE Construct
    <3>1. /\ Len(frames) \in DOMAIN frames /\ Top = frames[Len(frames)] /\ Top.at = "new"
          /\ cache' = [cache EXCEPT ![Top.of] = IF Top.of \in SecondCache THEN nextLabel ELSE Top.label]
          /\ cache \in [Entity -> Nat]
      BY <1>3, <2>4, ConstructCaches
    <3>2. frames'[i].of # Top.of
      BY <1>4, <2>1, <2>4, <3>1 DEF ConstructorsDoNotNest
    <3>3. cache'[frames'[i].of] = cache[frames'[i].of]
      BY <3>1, <3>2
    <3>. QED
      BY <2>2, <3>3
  <2>. QED
    BY <2>3, <2>4
<1>5. ASSUME NEW e \in Entity
      PROVE  /\ DefinitionsOf(e)' <= 1 /\ PopulationsOf(e)' <= 1
             /\ cache'[e] = 0 => DefinitionsOf(e)' = 0 /\ PopulationsOf(e)' = 0
  <2>1. /\ DefinitionsOf(e) \in Nat /\ PopulationsOf(e) \in Nat
        /\ DefinitionsOf(e) <= 1 /\ PopulationsOf(e) <= 1
        /\ cache[e] = 0 => DefinitionsOf(e) = 0 /\ PopulationsOf(e) = 0
    BY CountsAreNat DEF AtMostOnce
  <2>2. CASE Construct
    <3>1. /\ DefinitionsOf(e)' = DefinitionsOf(e) + Bit(Top.of = e)
          /\ PopulationsOf(e)' = PopulationsOf(e) + Bit(Top.of = e)
      BY <2>2, TotalsOfTop DEF TopAction
    <3>2. Top.of # e => cache'[e] = cache[e]
      BY <2>2, ConstructCaches
    <3>. QED
      BY <1>3, <2>1, <2>2, <3>1, <3>2 DEF Bit
  <2>3. CASE ~Construct
    <3>1. /\ DefinitionsOf(e)' <= DefinitionsOf(e) /\ PopulationsOf(e)' <= PopulationsOf(e)
          /\ UNCHANGED cache
      BY <2>3, TotalsOfStep DEF Owes
    <3>2. DefinitionsOf(e)' \in Nat /\ PopulationsOf(e)' \in Nat
      BY TotalsOf
    <3>. QED
      BY <2>1, <3>1, <3>2
  <2>. QED
    BY <2>2, <2>3
<1>. QED
  BY <1>2, <1>4, <1>5 DEF AtMostOnce

\* AtMostOnce holds always, if no constructor ever comes back to its entity.
LEMMA OnceInvariant ==
  Spec /\ []ConstructorsDoNotNest => [](ContextInv /\ PlacesInv /\ AtMostOnce)
<1>1. Init => ContextInv /\ PlacesInv /\ AtMostOnce
  BY InitHasInv, InitOwes
<1>2. ContextInv /\ PlacesInv /\ AtMostOnce /\ ConstructorsDoNotNest /\ [Next]_vars
        => (ContextInv /\ PlacesInv /\ AtMostOnce)'
  BY StepKeepsInv, StepKeepsPlaces, StepKeepsAtMostOnce
<1>. QED
  BY <1>1, <1>2, PTL DEF Spec

\* "Is only called when ... the entity has not already been populated"
\* (Entity.cs): in an extraction in which no constructor of an entity of the first
\* cache comes back to its entity, every label is defined and every entity
\* populated at most once.
THEOREM NothingTwice == Spec /\ []ConstructorsDoNotNest => []PopulatedOnce
<1>1. ASSUME ContextInv, AtMostOnce, NEW e \in Entity
      PROVE  definitions[e] <= 1 /\ populations[e] <= 1
  BY <1>1, CountsAreNat DEF AtMostOnce
<1>2. ContextInv /\ PlacesInv /\ AtMostOnce => PopulatedOnce
  BY <1>1 DEF PopulatedOnce
<1>. QED
  BY <1>2, OnceInvariant, PTL

-----------------------------------------------------------------------------
(* In the guard it was created in.                                         *)

LEMMA CountPositive ==
  ASSUME NEW S, NEW s \in Seq(S), NEW P, NEW i \in DOMAIN s, s[i] \in P
  PROVE  CountIn(s, P) # 0
<1>. DEFINE A == {j \in DOMAIN s : s[j] \in P}
<1>1. A # {} /\ IsFiniteSet(A) /\ CountIn(s, P) = Cardinality(A)
  BY CountIsNat DEF CountIn
<1>. HIDE DEF A
<1>. QED
  BY <1>1, FS_EmptySet

\* An entity whose population depends on a guard.
Dependent(e) == e \in Entity /\ fromSource /\ Behaviour[e] = "NeedsLabel"

\* What the invariants say of a dependent entity that is on its way to be
\* populated: it has been cached, in the guard that is active or queued with it.
LEMMA Pending ==
  ASSUME ContextInv, AtMostOnce, NeedsLabelInGuard, AtHome, NEW e, Dependent(e)
  PROVE  /\ \A i \in DOMAIN frames : frames[i] \in Populating(e) =>
              cache[e] # 0 /\ tagStack = home[e] /\ tagStack # <<>> /\ frames[i].at # "complain"
         /\ \A i \in DOMAIN populateQueue : populateQueue[i] \in ToPopulate(e) =>
              cache[e] # 0 /\ populateQueue[i].do = "populate" /\ GuardOf(populateQueue[i]) = home[e]
<1>1. e \in Entity /\ frames \in Seq(Frame) /\ populateQueue \in Seq(Action)
  BY DEF Dependent, ContextInv, TypeOK
<1>2. /\ PopulatingFrames(e) \in Nat /\ QueuedPopulations(e) \in Nat /\ populations[e] \in Nat
      /\ PopulationsOf(e) = populations[e] + PopulatingFrames(e) + QueuedPopulations(e)
  BY <1>1, CountsAreNat
<1>3. cache[e] = 0 => PopulatingFrames(e) = 0 /\ QueuedPopulations(e) = 0
  BY <1>1, <1>2 DEF AtMostOnce
<1>4. ASSUME NEW i \in DOMAIN frames, frames[i] \in Populating(e)
      PROVE  cache[e] # 0
  BY <1>1, <1>3, <1>4, CountPositive DEF PopulatingFrames
<1>5. ASSUME NEW i \in DOMAIN populateQueue, populateQueue[i] \in ToPopulate(e)
      PROVE  cache[e] # 0
  BY <1>1, <1>3, <1>5, CountPositive DEF QueuedPopulations
<1>. QED
  BY <1>1, <1>4, <1>5 DEF Dependent, AtHome, NeedsLabelInGuard

\* An entity gets a home when it is cached; it was not on its way before.
LEMMA HomeOfCached ==
  ASSUME ContextInv, PlacesInv, AtMostOnce, [Next]_vars, NEW e, Dependent(e)
  PROVE  /\ cache[e] # 0 => home'[e] = home[e]
         /\ Construct /\ Top.of = e => home'[e] = tagStack
         /\ ~Construct => home'[e] = home[e]
<1>1. e \in Entity /\ home \in [Entity -> Seq(Entity)] /\ frames \in Seq(Frame)
  BY DEF Dependent, ContextInv, TypeOK
<1>2. ~Construct => UNCHANGED home
  BY DEF Next, CreateHit, CreateTooDeep, CreateNew, ConstructKnown, Construct, BeginLabel,
     DefineLabelLater, EndLabel, PopulateNot, PopulateAfterLabel, PopulateDeferred, PopulateNow,
     Complained, PushGuard, DeferPart, Return, Throw, Catch, Propagate, CatchInPopulateAll, Fail,
     VisitMember, MembersVisited, PopulateNext, Populated, CommentsExtracted, AllPopulated, vars
<1>3. CASE Construct
  <2>1. /\ frames # <<>> /\ Top.at = "new" /\ home' = [home EXCEPT ![Top.of] = tagStack]
        /\ Top.of \notin SecondCache \/ cache[Top.of] = 0
    BY <1>3 DEF Construct, Running
  <2>2. Len(frames) \in DOMAIN frames /\ Top = frames[Len(frames)]
    <3>1. Len(frames) \in Nat /\ Len(frames) >= 1 /\ DOMAIN frames = 1 .. Len(frames)
          /\ Top = frames[Len(frames)]
      BY <1>1, <2>1, LastFront DEF Top
    <3>. QED
      BY <3>1
  <2>3. cache[Top.of] = 0
    BY <2>1, <2>2 DEF AtMostOnce
  <2>. QED
    BY <1>1, <1>3, <2>1, <2>3
<1>. QED
  BY <1>2, <1>3

\* A frame on the stack is the top or below it.
LEMMA FrameOrBelow ==
  ASSUME ContextInv, frames # <<>>
  PROVE  /\ Len(frames) \in DOMAIN frames /\ Top = frames[Len(frames)]
         /\ \A i : Below(i) => i \in DOMAIN frames /\ i < Len(frames)
<1>1. frames \in Seq(Frame)
  BY DEF ContextInv, TypeOK
<1>2. Len(frames) \in Nat /\ Len(frames) >= 1 /\ DOMAIN frames = 1 .. Len(frames)
      /\ Top = frames[Len(frames)]
  BY <1>1, LastFront DEF Top
<1>. QED
  BY <1>2 DEF Below

\* The guard that is active is left only by the frame that holds it.
LEMMA TagStackOfTop ==
  ASSUME ContextInv, PlacesInv, TopAction
  PROVE  /\ ~PushGuard => tagStack' = tagStack
         /\ PushGuard => tagStack = <<>> /\ Behaviour[Top.of] = "PushesLabel" /\ Top.at = "location"
<1>1. ASSUME PushGuard
      PROVE  tagStack = <<>> /\ Behaviour[Top.of] = "PushesLabel" /\ Top.at = "location"
  <2>1. Top.at = "location" /\ frames # <<>> /\ frames \in Seq(Frame)
    BY <1>1 DEF PushGuard, Running, ContextInv, TypeOK
  <2>2. /\ Len(frames) \in Nat /\ DOMAIN frames = 1 .. Len(frames)
        /\ Len(frames) \in DOMAIN frames /\ Top = frames[Len(frames)]
    BY <2>1, FrameOrBelow
  <2>3. Behaviour[Top.of] = "PushesLabel" /\ \A j \in DOMAIN frames : j <= Len(frames) => ~frames[j].keyed
    BY <2>1, <2>2 DEF ContextInv, FramesInv, OneGuard
  <2>4. \A j \in DOMAIN frames : ~frames[j].keyed
    BY <2>2, <2>3
  <2>. QED
    BY <2>1, <2>3, <2>4 DEF ContextInv, FramesInv, OneGuard
<1>2. ~PushGuard => tagStack' = tagStack
  BY DEF TopAction, CreateHit, CreateTooDeep, Construct, BeginLabel, DefineLabelLater, EndLabel,
     PopulateNow, Complained, DeferPart, Catch
<1>. QED
  BY <1>1, <1>2

\* A frame that is on its way to populate a dependent entity comes from one that
\* was, or from a constructor.
LEMMA ReplacedPopulates ==
  ASSUME ContextInv, PlacesInv, AtMostOnce, NeedsLabelInGuard, AtHome, TopAction,
         NEW e, Dependent(e), NEW f, OnTop(f), Stays(f) \/ Populates(f) \/ MovesTo(f),
         f \in Populating(e)
  PROVE  /\ ~PushGuard /\ f.at # "complain"
         /\ (Construct /\ Top.of = e) \/ (Top \in Populating(e) /\ Top.at # "complain")
<1>1. /\ f \in Frame /\ f.of = e /\ Top.of = e /\ f.scoped = Top.scoped
      /\ Behaviour[e] = "NeedsLabel"
      /\ \/ f.at \in {"cached", "id"} /\ f.scoped
         \/ f.at \in {"defined", "complain", "location"}
  BY DEF OnTop, Populating, Dependent
<1>2. frames # <<>> /\ Top \in Frame /\ PlaceOK(Top)
  BY TopIsReplaced, TopPlace
<1>3. Top \in Populating(e) => tagStack # <<>> /\ Top.at # "complain"
  <2>1. Len(frames) \in DOMAIN frames /\ Top = frames[Len(frames)]
    BY <1>2, FrameOrBelow
  <2>. QED
    BY <2>1, Pending
<1>4. ~PushGuard
  BY <1>1, TagStackOfTop
<1>5. CASE Stays(f)
  <2>1. f.at = Top.at
    BY <1>5 DEF Stays
  <2>2. Top \in Populating(e)
    BY <1>1, <1>2, <2>1 DEF Populating
  <2>. QED
    BY <1>3, <1>4, <2>1, <2>2
<1>6. CASE Populates(f)
  <2>1. f.at = "complain" /\ Unguarded(Top.of) /\ PopulateNow
    BY <1>1, <1>6 DEF Populates
  <2>2. Top.at = "defined" /\ tagStack = <<>>
    BY <2>1 DEF PopulateNow, Unguarded
  <2>3. Top \in Populating(e)
    BY <1>1, <1>2, <2>2 DEF Populating
  <2>. QED
    BY <1>3, <2>2, <2>3
<1>7. CASE MovesTo(f)
  <2>1. CASE Construct
    BY <1>1, <1>4, <1>7, <2>1 DEF MovesTo
  <2>2. CASE BeginLabel
    <3>1. Top.at = "cached"
      BY <2>2 DEF BeginLabel
    <3>2. f.at \in {"cached", "id", "defined"}
      BY <1>1, <1>7 DEF MovesTo
    <3>3. f.at # "defined"
      BY <1>7, <3>1, <2>2 DEF MovesTo, DefineLabelLater, BeginLabel, EndLabel
    <3>4. Top \in Populating(e)
      BY <1>1, <1>2, <3>1, <3>2, <3>3 DEF Populating
    <3>. QED
      BY <1>3, <1>4, <3>2, <3>4
  <2>3. CASE DefineLabelLater
    <3>1. Top.at = "cached" /\ Top.scoped
      BY <1>2, <2>3 DEF DefineLabelLater, PlaceOK, Frame
    <3>2. Top \in Populating(e)
      BY <1>1, <1>2, <3>1 DEF Populating
    <3>3. f.at # "complain"
      BY <1>7 DEF MovesTo
    <3>. QED
      BY <1>3, <1>4, <3>2, <3>3
  <2>4. CASE EndLabel
    <3>1. Top.at = "id" /\ (raised \/ Top.left = {})
      BY <2>4 DEF EndLabel
    <3>2. EndLabel /\ Top.scoped
      BY <2>4, <3>1 DEF TopAction, CreateHit, CreateTooDeep, Construct, BeginLabel, DefineLabelLater,
         PopulateNow, Complained, PushGuard, DeferPart, Catch, Tried, Running
    <3>3. Top \in Populating(e)
      BY <1>1, <1>2, <3>1, <3>2 DEF Populating
    <3>4. f.at # "complain"
      BY <1>7 DEF MovesTo
    <3>. QED
      BY <1>3, <1>4, <3>3, <3>4
  <2>. QED
    BY <1>1, <1>7, <2>1, <2>2, <2>3, <2>4 DEF MovesTo
<1>. QED
  BY <1>5, <1>6, <1>7

\* A frame below the top keeps its home, unless the top takes the guard away,
\* which it does not while the frame is on its way to populate.
LEMMA HomeBelow ==
  ASSUME ContextInv, PlacesInv, AtMostOnce, NeedsLabelInGuard, AtHome, [Next]_vars,
         NEW e, Dependent(e), NEW i, frames # <<>>, Below(i), frames'[i] \in Populating(e)
  PROVE  /\ tagStack = home'[e] /\ frames'[i].at # "complain"
         /\ Leave => tagStack' = tagStack
         /\ ~PushGuard
<1>1. i \in DOMAIN frames /\ i < Len(frames) /\ frames'[i] = frames[i]
      /\ Len(frames) \in DOMAIN frames /\ Top = frames[Len(frames)] /\ i \in 1 .. Len(frames) - 1
  BY FrameOrBelow DEF Below
<1>2. /\ cache[e] # 0 /\ tagStack = home[e] /\ tagStack # <<>> /\ frames[i].at # "complain"
  BY <1>1, Pending
<1>3. home'[e] = home[e]
  BY <1>2, HomeOfCached
<1>4. frames[i].at = "id"
  <2>1. frames[i].at \notin {"cached", "defined"}
    BY <1>1, PlacesBelow
  <2>2. frames[i].at # "location"
    BY <1>1 DEF Dependent, Populating, ContextInv, FramesInv, OneGuard
  <2>. QED
    BY <1>1, <1>2, <2>1, <2>2 DEF Populating
<1>5. ~Top.keyed /\ Top.at # "location"
  BY <1>1, <1>4 DEF ContextInv, FramesInv, LabelOnTop
<1>. QED
  BY <1>1, <1>2, <1>3, <1>5 DEF Leave, PushGuard

LEMMA FramesAtHome ==
  ASSUME ContextInv, PlacesInv, AtMostOnce, NeedsLabelInGuard, AtHome, [Next]_vars,
         NEW e, Dependent(e), NEW i \in DOMAIN frames', frames'[i] \in Populating(e)
  PROVE  tagStack' = home'[e] /\ frames'[i].at # "complain"
<1>1. e \in Entity /\ fromSource /\ frames'[i].of = e /\ frames'[i] \in Frame
  BY DEF Dependent, Populating
<1>2. CASE TopAction
  <2>1. PICK f : OnTop(f) /\ (Stays(f) \/ Populates(f) \/ MovesTo(f))
    BY <1>2, TopIsReplaced
  <2>2. frames # <<>> /\ f \in Frame /\ frames' = WithTop(frames, f)
    BY <1>2, <2>1, TopIsReplaced DEF OnTop
  <2>3. Below(i) \/ OnceTop(i, f)
    BY <2>2, FramesAfterTop
  <2>4. CASE Below(i)
    BY <1>2, <2>2, <2>4, HomeBelow, TagStackOfTop
  <2>5. CASE OnceTop(i, f)
    <3>1. f \in Populating(e) /\ frames'[i] = f
      BY <2>5 DEF OnceTop
    <3>2. /\ ~PushGuard /\ f.at # "complain"
          /\ (Construct /\ Top.of = e) \/ (Top \in Populating(e) /\ Top.at # "complain")
      BY <1>2, <2>1, <3>1, ReplacedPopulates
    <3>3. Top \in Populating(e) => cache[e] # 0 /\ tagStack = home[e]
      BY <2>2, FrameOrBelow, Pending
    <3>. QED
      BY <1>2, <3>1, <3>2, <3>3, HomeOfCached, TagStackOfTop
  <2>. QED
    BY <2>3, <2>4, <2>5
<1>3. CASE LeaveAction
  BY <1>3, LeaveActionLeaves, FramesAfterLeave, HomeBelow
<1>4. CASE TaskAction
  <2>1. UNCHANGED <<home, tagStack, frames>>
    <3>1. frames'[i].at \notin {"report", "member", "comments"}
      BY DEF Populating
    <3>. QED
      BY <1>4, <3>1, FramesAfterTask
  <2>. QED
    BY <2>1, Pending
<1>5. CASE PopulateNext
  <2>1. PICK a \in Action, k \in BOOLEAN :
          /\ a = Head(populateQueue) /\ k = (a.guard # NoEntity /\ fromSource)
          /\ populateQueue # <<>> /\ populateQueue \in Seq(Action)
          /\ frames' = <<[Start(a) EXCEPT !.keyed = k]>>
          /\ tagStack' = IF k THEN <<a.guard>> ELSE <<>>
    BY <1>5, RoundOfPopulateAll
  <2>2. PICK f : f = [Start(a) EXCEPT !.keyed = k]
    OBVIOUS
  <2>3. f.at = Start(a).at /\ f.of = a.of /\ f.scoped = FALSE
    BY <2>2, StartFrame DEF Frame
  <2>4. DOMAIN <<f>> = {1} /\ <<f>>[1] = f
    OBVIOUS
  <2>5. frames'[i] = f
    BY <2>1, <2>2, <2>4
  <2>6. f.at = "defined" /\ a.of = e
    <3>1. f.at = "location" => Behaviour[a.of] = "PushesLabel"
      BY <2>3, StartFrame
    <3>2. f.at # "complain"
      BY <2>3, StartFrame
    <3>. QED
      BY <2>3, <2>5, <3>1, <3>2 DEF Populating, Dependent
  <2>7. 1 \in DOMAIN populateQueue /\ populateQueue[1] = a /\ a \in ToPopulate(e)
    <3>1. a.do = "populate"
      BY <2>3, <2>6, StartPlace
    <3>. QED
      BY <2>1, <2>6, <3>1 DEF ToPopulate
  <2>8. GuardOf(a) = home[e]
    BY <2>7, Pending
  <2>9. home'[e] = home[e]
    BY <1>5, FramesAfterRound
  <2>. QED
    BY <1>1, <2>1, <2>5, <2>6, <2>8, <2>9 DEF GuardOf
<1>6. CASE \E x \in Entity : CreateNew(x)
  <2>1. PICK x \in Entity : CreateNew(x)
    BY <1>6
  <2>2. UNCHANGED <<home, tagStack>>
    BY <2>1 DEF CreateNew
  <2>3. PICK h \in Frame, f \in Frame :
          /\ h.at = Top.at /\ h.of = Top.of /\ h.label = Top.label /\ h.scoped = Top.scoped
          /\ f.at = "new" /\ f.of = x /\ (x \notin SecondCache => f.label = nextLabel)
          /\ \A j \in DOMAIN frames' :
               Below(j) \/ OnceTop(j, h) \/ (j = Len(frames) + 1 /\ frames'[j] = f)
    BY <2>1, FramesAfterNew
  <2>4. frames # <<>>
    BY <2>1, FramesAfterNew
  <2>5. CASE Below(i)
    BY <2>2, <2>4, <2>5, HomeBelow
  <2>6. CASE OnceTop(i, h)
    <3>1. h \in Populating(e) /\ frames'[i] = h
      BY <2>6 DEF OnceTop
    <3>2. Top \in Frame
      BY <2>4, TopPlace
    <3>3. Top \in Populating(e)
      BY <2>3, <3>1, <3>2 DEF Populating
    <3>. QED
      BY <2>2, <2>3, <2>4, <3>1, <3>3, FrameOrBelow, Pending
  <2>7. CASE frames'[i] = f
    BY <2>3, <2>7 DEF Populating
  <2>. QED
    BY <2>3, <2>5, <2>6, <2>7
<1>. QED
  BY <1>2, <1>3, <1>4, <1>5, <1>6, KindsOfAction

\* What a step puts into the queue on behalf of a dependent entity.
LEMMA QueueAfterStep ==
  ASSUME ContextInv, PlacesInv, AtMostOnce, NeedsLabelInGuard, AtHome, [Next]_vars,
         NEW e, Dependent(e)
  PROVE  \/ UNCHANGED populateQueue
         \/ populateQueue # <<>> /\ populateQueue' = Tail(populateQueue)
         \/ \E a \in Action :
              /\ populateQueue' = Append(populateQueue, a)
              /\ a \in ToPopulate(e) =>
                   a.do = "populate" /\ GuardOf(a) = home[e] /\ UNCHANGED home
<1>0. TypeOK /\ e \in Entity /\ Behaviour[e] = "NeedsLabel" /\ Len(tagStack) <= 1 /\ tagStack \in Seq(Entity)
  BY DEF Dependent, ContextInv, TypeOK, FramesInv, OneGuard
<1>1. CASE DefineLabelLater \/ DeferPart
  <2>1. PICK do \in {"define", "later"} : populateQueue' = Append(populateQueue, Guarded(do, Top.of, Top.label))
    BY <1>1 DEF DefineLabelLater, DeferPart, PopulateLater
  <2>2. frames # <<>> /\ Top.at \in {"cached", "populate"}
    BY <1>1 DEF DefineLabelLater, DeferPart, Running
  <2>3. Top.of \in Entity /\ Top.label \in Nat
    BY <2>2, TopPlace, FrameFields
  <2>4. PICK a : a = Guarded(do, Top.of, Top.label)
    OBVIOUS
  <2>5. a \in Action
    BY <1>0, <2>3, <2>4, GuardedIsAction
  <2>6. a \notin ToPopulate(e)
    BY <2>4 DEF ToPopulate, Guarded
  <2>. QED
    BY <2>1, <2>4, <2>5, <2>6
<1>2. CASE PopulateAfterLabel
  <2>1. /\ populateQueue' = Append(populateQueue, Guarded("populate", Top.of, Top.label))
        /\ frames # <<>> /\ Top.at = "defined" /\ UNCHANGED home
    BY <1>2 DEF PopulateAfterLabel, PopulateLater, Running
  <2>2. Top \in Frame /\ Top.of \in Entity /\ Top.label \in Nat
    BY <2>1, TopPlace, FrameFields
  <2>3. PICK a : a = Guarded("populate", Top.of, Top.label)
    OBVIOUS
  <2>4. a \in Action
    BY <1>0, <2>2, <2>3, GuardedIsAction
  <2>5. ASSUME a \in ToPopulate(e)
        PROVE  a.do = "populate" /\ GuardOf(a) = home[e]
    <3>1. Top.of = e /\ a.do = "populate" /\ a.guard = IF tagStack = <<>> THEN NoEntity ELSE Last(tagStack)
      BY <2>3, <2>5 DEF ToPopulate, Guarded
    <3>2. Top \in Populating(e)
      BY <2>1, <2>2, <3>1 DEF Populating
    <3>3. tagStack = home[e] /\ tagStack # <<>>
      BY <2>1, <3>2, FrameOrBelow, Pending
    <3>4. Len(tagStack) = 1 /\ Last(tagStack) = tagStack[1] /\ Last(tagStack) \in Entity
      <4>1. Len(tagStack) \in Nat /\ Len(tagStack) >= 1 /\ Last(tagStack) = tagStack[Len(tagStack)]
            /\ Last(tagStack) \in Entity
        BY <1>0, <3>3, LastFront
      <4>2. \A n \in Nat : n >= 1 /\ n <= 1 => n = 1
        OBVIOUS
      <4>3. Len(tagStack) = 1
        BY <1>0, <4>1, <4>2, Zenon
      <4>. QED
        BY <4>1, <4>3
    <3>5. tagStack = <<Last(tagStack)>>
      BY <1>0, <3>4
    <3>6. Last(tagStack) # NoEntity
      BY <3>4, ContextAssumption
    <3>. QED
      BY <3>1, <3>3, <3>5, <3>6 DEF GuardOf
  <2>. QED
    BY <2>1, <2>3, <2>4, <2>5
<1>3. CASE PopulateDeferred
  <2>1. /\ populateQueue' = Append(populateQueue, Perform(Top.of, Top.label))
        /\ frames # <<>> /\ Top.at = "defined" /\ MustWait(Top.of)
    BY <1>3 DEF PopulateDeferred, Running
  <2>2. Top.of \in Entity /\ Top.label \in Nat
    BY <2>1, TopPlace, FrameFields
  <2>3. PICK a : a = Perform(Top.of, Top.label)
    OBVIOUS
  <2>4. a \in Action /\ a.of = Top.of
    BY <2>2, <2>3 DEF Perform, Action
  <2>5. a \notin ToPopulate(e)
    BY <1>0, <2>1, <2>4 DEF ToPopulate, MustWait
  <2>. QED
    BY <2>1, <2>3, <2>4, <2>5
<1>4. CASE PopulateNext
  BY <1>4 DEF PopulateNext
<1>5. CASE ~DefineLabelLater /\ ~DeferPart /\ ~PopulateAfterLabel /\ ~PopulateDeferred /\ ~PopulateNext
  <2>1. UNCHANGED populateQueue
    BY <1>5 DEF Next, CreateHit, CreateTooDeep, CreateNew, ConstructKnown, Construct, BeginLabel,
       EndLabel, PopulateNot, PopulateNow, Complained, PushGuard, Return, Throw, Catch, Propagate,
       CatchInPopulateAll, Fail, VisitMember, MembersVisited, Populated, CommentsExtracted,
       AllPopulated, vars
  <2>. QED
    BY <2>1
<1>. QED
  BY <1>1, <1>2, <1>3, <1>4, <1>5

LEMMA QueueAtHome ==
  ASSUME ContextInv, PlacesInv, AtMostOnce, NeedsLabelInGuard, AtHome, [Next]_vars,
         NEW e, Dependent(e), NEW i \in DOMAIN populateQueue', populateQueue'[i] \in ToPopulate(e)
  PROVE  populateQueue'[i].do = "populate" /\ GuardOf(populateQueue'[i]) = home'[e]
<1>0. populateQueue \in Seq(Action)
  BY DEF ContextInv, TypeOK
<1>1. ASSUME NEW j \in DOMAIN populateQueue, populateQueue'[i] = populateQueue[j]
      PROVE  populateQueue'[i].do = "populate" /\ GuardOf(populateQueue'[i]) = home'[e]
  <2>1. cache[e] # 0 /\ populateQueue[j].do = "populate" /\ GuardOf(populateQueue[j]) = home[e]
    BY <1>1, Pending
  <2>. QED
    BY <1>1, <2>1, HomeOfCached DEF GuardOf
<1>2. CASE UNCHANGED populateQueue
  BY <1>1, <1>2
<1>3. CASE populateQueue # <<>> /\ populateQueue' = Tail(populateQueue)
  <2>1. i + 1 \in DOMAIN populateQueue /\ populateQueue'[i] = populateQueue[i + 1]
    BY <1>0, <1>3
  <2>. QED
    BY <1>1, <2>1
<1>4. CASE \E a \in Action :
             /\ populateQueue' = Append(populateQueue, a)
             /\ a \in ToPopulate(e) => a.do = "populate" /\ GuardOf(a) = home[e] /\ UNCHANGED home
  <2>1. PICK a \in Action :
             /\ populateQueue' = Append(populateQueue, a)
             /\ a \in ToPopulate(e) => a.do = "populate" /\ GuardOf(a) = home[e] /\ UNCHANGED home
    BY <1>4
  <2>2. \/ i \in DOMAIN populateQueue /\ populateQueue'[i] = populateQueue[i]
        \/ populateQueue'[i] = a
    BY <1>0, <2>1
  <2>. QED
    BY <1>1, <2>1, <2>2
<1>. QED
  BY <1>2, <1>3, <1>4, QueueAfterStep

LEMMA SourceStays == ASSUME [Next]_vars PROVE UNCHANGED fromSource
BY DEF Next, CreateHit, CreateTooDeep, CreateNew, ConstructKnown, Construct, BeginLabel,
   DefineLabelLater, EndLabel, PopulateNot, PopulateAfterLabel, PopulateDeferred, PopulateNow,
   Complained, PushGuard, DeferPart, Return, Throw, Catch, Propagate, CatchInPopulateAll, Fail,
   VisitMember, MembersVisited, PopulateNext, Populated, CommentsExtracted, AllPopulated, vars, task

LEMMA StepKeepsAtHome ==
  ASSUME ContextInv, PlacesInv, AtMostOnce, NeedsLabelInGuard, AtHome, [Next]_vars
  PROVE  AtHome'
<1>1. ASSUME NEW e \in Entity, fromSource', Behaviour[e] = "NeedsLabel"
      PROVE  Dependent(e)
  BY <1>1, SourceStays DEF Dependent
<1>2. ASSUME NEW e, Dependent(e)
      PROVE  /\ \A i \in DOMAIN frames' : frames'[i] \in Populating(e) =>
                  tagStack' = home'[e] /\ frames'[i].at # "complain"
             /\ \A i \in DOMAIN populateQueue' : populateQueue'[i] \in ToPopulate(e) =>
                  populateQueue'[i].do = "populate" /\ GuardOf(populateQueue'[i]) = home'[e]
  BY <1>2, FramesAtHome, QueueAtHome
<1>. QED
  BY <1>1, <1>2 DEF AtHome, Populating, ToPopulate, GuardOf

\* A dependent entity is populated by the frame that was on its way to do so.
LEMMA PopulatedAtHome ==
  ASSUME ContextInv, PlacesInv, AtMostOnce, NeedsLabelInGuard, AtHome, [Next]_vars,
         NEW e, Dependent(e), populations'[e] # populations[e]
  PROVE  tagStack' = home[e] /\ tagStack' # <<>>
<1>0. e \in Entity /\ Behaviour[e] = "NeedsLabel" /\ populations \in [Entity -> Nat]
  BY DEF Dependent, ContextInv, TypeOK
<1>1. CASE TopAction
  <2>1. PICK f : OnTop(f) /\ (Stays(f) \/ Populates(f) \/ MovesTo(f))
    BY <1>1, TopIsReplaced
  <2>2. /\ PopulateNow \/ Complained \/ PushGuard
        /\ f.at = "populate" /\ populations' = [populations EXCEPT ![Top.of] = @ + 1]
    BY <2>1 DEF Stays, Populates, MovesTo
  <2>3. Top.of = e /\ frames # <<>>
    BY <1>0, <1>1, <2>2, TopIsReplaced
  <2>4. ~PushGuard
    BY <1>0, <1>1, <2>3, TagStackOfTop
  <2>5. Top.at \in {"defined", "complain"}
    BY <2>2, <2>4 DEF PopulateNow, Complained
  <2>6. Top \in Populating(e)
    BY <2>3, <2>5, TopPlace DEF Populating
  <2>7. tagStack = home[e] /\ tagStack # <<>>
    BY <2>3, <2>6, FrameOrBelow, Pending
  <2>. QED
    BY <1>1, <2>4, <2>7, TagStackOfTop
<1>2. CASE LeaveAction
  BY <1>2, LeaveActionLeaves
<1>3. CASE TaskAction
  BY <1>3, FramesAfterTask
<1>4. CASE PopulateNext
  <2>1. PICK a \in Action, k \in BOOLEAN :
          /\ a = Head(populateQueue) /\ k = (a.guard # NoEntity /\ fromSource)
          /\ populateQueue # <<>> /\ populateQueue \in Seq(Action)
          /\ populations' = IF a.do = "perform" /\ Behaviour[a.of] # "PushesLabel"
                              THEN [populations EXCEPT ![a.of] = @ + 1]
                              ELSE populations
    BY <1>4, RoundOfPopulateAll
  <2>2. a.do = "perform" /\ a.of = e
    BY <1>0, <2>1
  <2>3. 1 \in DOMAIN populateQueue /\ populateQueue[1] = a /\ a \in ToPopulate(e)
    BY <2>1, <2>2 DEF ToPopulate
  <2>. QED
    BY <2>2, <2>3, Pending
<1>5. CASE \E x \in Entity : CreateNew(x)
  BY <1>5 DEF CreateNew, trapFile
<1>. QED
  BY <1>1, <1>2, <1>3, <1>4, <1>5, KindsOfAction

LEMMA InitAtHome == Init => AtHome
<1>1. DOMAIN <<>> = {}
  OBVIOUS
<1>. QED
  BY <1>1 DEF Init, AtHome

\* What needs a duplication guard is populated in the guard that was active when
\* it was created, however often its population was put off
\* (Context.WithDuplicationGuard, Context.PopulateLater), in an extraction that
\* creates such entities in guards and whose constructors do not come back to
\* their entity.
THEOREM PopulatedInItsGuard ==
  Spec /\ []ConstructorsDoNotNest /\ []NeedsLabelInGuard => GuardIsKept
<1>. DEFINE Inv  == ContextInv /\ PlacesInv /\ AtMostOnce /\ AtHome
            Kept == \A e \in Entity :
                      fromSource /\ populations'[e] # populations[e] /\ Behaviour[e] = "NeedsLabel"
                        => tagStack' = home[e] /\ tagStack' # <<>>
<1>1. Init => Inv
  BY InitHasInv, InitOwes, InitAtHome
<1>2. Inv /\ ConstructorsDoNotNest /\ NeedsLabelInGuard /\ [Next]_vars => Inv'
  BY StepKeepsInv, StepKeepsPlaces, StepKeepsAtMostOnce, StepKeepsAtHome
<1>3. Inv /\ NeedsLabelInGuard /\ [Next]_vars => [Kept]_vars
  BY PopulatedAtHome DEF Dependent
<1>4. [][Kept]_vars => GuardIsKept
  BY DEF GuardIsKept
<1>. HIDE DEF Inv, Kept
<1>. QED
  BY <1>1, <1>2, <1>3, <1>4, PTL DEF Spec
=============================================================================
