------------------------- MODULE EncoderCacheProofs -------------------------
(***************************************************************************)
(* Proofs about the cache of encoder functions, for every number of        *)
(* goroutines, every set of types and every way they refer to each other.  *)
(*                                                                         *)
(* CallsBuilt is not inductive: what a goroutine is about to call came     *)
(* from the cache or from what an earlier build captured, and was put      *)
(* there for the type that some frame further down asked for.  The         *)
(* invariant IInv says what a call stack looks like: the builds in         *)
(* progress, each waiting for the type that the frame above it asks for,   *)
(* on top of the values being encoded.                                     *)
(***************************************************************************)
EXTENDS EncoderCache, TLAPS

(***************************************************************************)
(* Facts about sequences.                                                  *)
(***************************************************************************)
\* Sequences are equal when their elements are.
LEMMA SeqEqual ==
    ASSUME NEW S, NEW s \in Seq(S), NEW t \in Seq(S), Len(s) = Len(t),
           \A i \in 1 .. Len(s) : s[i] = t[i]
    PROVE  s = t
OBVIOUS

\* Concatenation is associative.
LEMMA ConcatAssociative ==
    ASSUME NEW S, NEW s \in Seq(S), NEW t \in Seq(S), NEW u \in Seq(S)
    PROVE  (s \o t) \o u = s \o (t \o u)
OBVIOUS

EncSet   == [fn : {"nil", "indirect", "real"}, b : Nat]
BuildSet == [by : Threads, t : Types, kids : Seq(EncSet), f : {"nil", "set"}, wg : {0, 1}]
FrameSet ==
    [op : {"look", "install"}, t : Types]
    \cup [op : {"build", "done", "publish"}, b : Nat]
    \cup [op : {"start"}, t : Types, n : Nat]
    \cup [op : {"call"}, e : EncSet, t : Types, n : Nat]
    \cup [op : {"fields"}, b : Nat, i : Nat, n : Nat]

TypeOK ==
    /\ cache \in [Types -> EncSet]
    /\ builds \in Seq(BuildSet)
    /\ stack \in [Threads -> Seq(FrameSet)]
    /\ calls \in [Threads -> Nat]
    /\ result \in [Threads -> {"none", "ok", "error"}]

\* The frames of typeEncoder: of a call that has not built yet, and of a build.
Asks    == {"look", "install"}
Pending == {"build", "done", "publish"}
Encodes == {"start", "call", "fields"}

\* A function that a value of type t may be given to.
For(e, t, bs) ==
    /\ e.fn \in {"indirect", "real"} /\ e.b \in DOMAIN bs
    /\ bs[e.b].t = t
    /\ e.fn = "real" => bs[e.b].f = "set"

\* Encoders are captured in the order of the components, f is assigned after the
\* last one, and wg.Done() comes after that.
BuildOK(bd, bs) ==
    /\ Len(bd.kids) <= Len(Kids[bd.t])
    /\ \A i \in DOMAIN bd.kids : For(bd.kids[i], Kids[bd.t][i], bs)
    /\ bd.f = "set" => Len(bd.kids) = Len(Kids[bd.t])
    /\ bd.wg = 0 => bd.f = "set"
BuildsOK(bs) == \A b \in DOMAIN bs : BuildOK(bs[b], bs)
CacheOK(c, bs) == \A t \in Types : c[t] = None \/ For(c[t], t, bs)

FrameOK(fr, th, bs) ==
    /\ fr.op \in Pending => fr.b \in DOMAIN bs /\ bs[fr.b].by = th
    /\ fr.op \in {"done", "publish"} => bs[fr.b].f = "set"
    /\ fr.op = "call" => For(fr.e, fr.t, bs)
    /\ fr.op = "fields" => fr.b \in DOMAIN bs /\ fr.i # 0

\* The type a frame of typeEncoder will return an encoder of, and the frame below
\* that waits for it.
Asked(fr, bs) == IF fr.op \in Asks THEN fr.t ELSE bs[fr.b].t
Wants(fr, t, bs) ==
    \/ fr.op = "start" /\ fr.t = t
    \/ /\ fr.op = "build"
       /\ Len(bs[fr.b].kids) < Len(Kids[bs[fr.b].t])
       /\ Kids[bs[fr.b].t][Len(bs[fr.b].kids) + 1] = t

\* Frame fr on top of the frames s.
Above(fr, s, bs) ==
    /\ fr.op \in Asks \cup Pending => s # <<>> /\ Wants(s[1], Asked(fr, bs), bs)
    /\ fr.op \in Encodes => \A j \in DOMAIN s : s[j].op = "fields"
    /\ fr.op \in Pending => \A j \in DOMAIN s : s[j].op \in Pending => s[j].b # fr.b

Stacked(s, th, bs) ==
    /\ \A i \in DOMAIN s : FrameOK(s[i], th, bs)
    /\ \A i \in DOMAIN s : s[i].op \in Asks \cup Pending =>
            i < Len(s) /\ Wants(s[i + 1], Asked(s[i], bs), bs)
    /\ \A i, j \in DOMAIN s : i < j =>
            /\ s[i].op \in Encodes => s[j].op = "fields"
            /\ s[i].op \in Pending /\ s[j].op \in Pending => s[i].b # s[j].b

\* The builds of the frames of s that are at one of these operations.
Of(s, ops) == {s[i].b : i \in {j \in DOMAIN s : s[j].op \in ops}}

\* An indirect function is in the cache only while some goroutine builds the type.
IndirectPending ==
    \A t \in Types : cache[t].fn = "indirect" =>
        \E th \in Threads : \E b \in Of(stack[th], Pending) : builds[b].t = t

\* Who has not called wg.Done() yet is still at it.
Unreleased ==
    \A b \in DOMAIN builds :
        builds[b].wg = 1 => b \in Of(stack[builds[b].by], {"build", "done"})

IInv ==
    /\ TypeOK
    /\ BuildsOK(builds)
    /\ CacheOK(cache, builds)
    /\ \A th \in Threads : Stacked(stack[th], th, builds)
    /\ IndirectPending
    /\ Unreleased

\* A goroutine in wg.Wait() waits for another one that is inside typeEncoder, where
\* nothing blocks: no cycle of goroutines waits on each other's indirect functions,
\* and none waits on its own.
WaitsOnBuilder ==
    \A th \in Threads :
        At(th, "call") /\ Top(th).e.fn = "indirect" /\ builds[Top(th).e.b].wg # 0 =>
            LET o == builds[Top(th).e.b].by
            IN  o # th /\ stack[o] # <<>> /\ Top(o).op \in Asks \cup Pending

-----------------------------------------------------------------------------
(* Stacks.                                                                 *)

\* The frame s[1], and the frames below it.
LEMMA Frames ==
    ASSUME NEW s \in Seq(FrameSet), s # <<>>
    PROVE  /\ Head(s) = s[1] /\ s[1] \in FrameSet /\ 1 \in DOMAIN s
           /\ Tail(s) \in Seq(FrameSet) /\ Len(Tail(s)) = Len(s) - 1
           /\ \A i \in DOMAIN Tail(s) : i + 1 \in DOMAIN s /\ Tail(s)[i] = s[i + 1]
           /\ \A i \in DOMAIN s : i # 1 => i - 1 \in DOMAIN Tail(s) /\ s[i] = Tail(s)[i - 1]
  OBVIOUS

\* The topmost frame, and the ones below it.
LEMMA FramesSplit ==
    ASSUME NEW s \in Seq(FrameSet), s # <<>>
    PROVE  Head(s) \in FrameSet /\ Tail(s) \in Seq(FrameSet) /\ s = <<Head(s)>> \o Tail(s)
  OBVIOUS

\* One frame pushed.
LEMMA Pushed ==
    ASSUME NEW fr \in FrameSet, NEW s \in Seq(FrameSet)
    PROVE  LET r == <<fr>> \o s
           IN  /\ r \in Seq(FrameSet) /\ r # <<>> /\ Len(r) = Len(s) + 1
               /\ r[1] = fr /\ Head(r) = fr /\ Tail(r) = s
               /\ \A i \in DOMAIN s : i + 1 \in DOMAIN r /\ r[i + 1] = s[i]
               /\ \A i \in DOMAIN r : i # 1 => i - 1 \in DOMAIN s /\ r[i] = s[i - 1]
  OBVIOUS

\* Taking the top frame off a stack leaves a stack under it.
LEMMA Pop ==
    ASSUME NEW th, NEW bs, NEW s \in Seq(FrameSet), s # <<>>, Stacked(s, th, bs)
    PROVE  /\ Stacked(Tail(s), th, bs)
           /\ FrameOK(Head(s), th, bs)
           /\ Above(Head(s), Tail(s), bs)
  <1>1. \A i \in DOMAIN Tail(s) : FrameOK(Tail(s)[i], th, bs)
    BY Frames DEF Stacked
  <1>2. \A i \in DOMAIN Tail(s) : Tail(s)[i].op \in Asks \cup Pending =>
            i < Len(Tail(s)) /\ Wants(Tail(s)[i + 1], Asked(Tail(s)[i], bs), bs)
    BY Frames DEF Stacked
  <1>3. \A i, j \in DOMAIN Tail(s) : i < j =>
            /\ Tail(s)[i].op \in Encodes => Tail(s)[j].op = "fields"
            /\ Tail(s)[i].op \in Pending /\ Tail(s)[j].op \in Pending => Tail(s)[i].b # Tail(s)[j].b
    BY Frames DEF Stacked
  <1>4. FrameOK(Head(s), th, bs)
    BY Frames DEF Stacked
  <1>5. Above(Head(s), Tail(s), bs)
    BY Frames DEF Stacked, Above
  <1>6. QED
    BY <1>1, <1>2, <1>3, <1>4, <1>5 DEF Stacked

\* A frame that fits can be put on top.
LEMMA Push ==
    ASSUME NEW th, NEW bs, NEW s \in Seq(FrameSet), NEW fr \in FrameSet,
           Stacked(s, th, bs), FrameOK(fr, th, bs), Above(fr, s, bs)
    PROVE  Stacked(<<fr>> \o s, th, bs)
  <1> DEFINE r == <<fr>> \o s
  <1>1. \A i \in DOMAIN r : FrameOK(r[i], th, bs)
    BY Pushed DEF Stacked
  <1>2. \A i \in DOMAIN r : r[i].op \in Asks \cup Pending =>
            i < Len(r) /\ Wants(r[i + 1], Asked(r[i], bs), bs)
    <2> SUFFICES ASSUME NEW i \in DOMAIN r, r[i].op \in Asks \cup Pending
                 PROVE  i < Len(r) /\ Wants(r[i + 1], Asked(r[i], bs), bs)
      BY Zenon
    <2>1. CASE i = 1
      <3>1. s # <<>> /\ Wants(s[1], Asked(fr, bs), bs)
        BY <2>1, Pushed DEF Above
      <3>2. r[1] = fr /\ r[2] = s[1] /\ 1 < Len(r)
        BY <3>1, Pushed
      <3>3. QED
        BY <2>1, <3>1, <3>2
    <2>2. CASE i # 1
      <3>1. i - 1 \in DOMAIN s /\ r[i] = s[i - 1] /\ i - 1 \in Nat
        BY <2>2, Pushed
      <3>2. i - 1 < Len(s) /\ Wants(s[(i - 1) + 1], Asked(s[i - 1], bs), bs)
        BY <3>1 DEF Stacked
      <3>3. i < Len(r) /\ r[i + 1] = s[(i - 1) + 1]
        BY <3>1, <3>2, Pushed
      <3>4. QED
        BY <3>1, <3>2, <3>3
    <2>3. QED
      BY <2>1, <2>2
  <1>3. \A i, j \in DOMAIN r : i < j =>
            /\ r[i].op \in Encodes => r[j].op = "fields"
            /\ r[i].op \in Pending /\ r[j].op \in Pending => r[i].b # r[j].b
    BY Pushed DEF Stacked, Above
  <1>4. QED
    BY Zenon, <1>1, <1>2, <1>3 DEF Stacked

\* What a frame adds to the builds in progress.
LEMMA OfPushed ==
    ASSUME NEW s \in Seq(FrameSet), NEW fr \in FrameSet, NEW ops
    PROVE  Of(<<fr>> \o s, ops) = Of(s, ops) \cup (IF fr.op \in ops THEN {fr.b} ELSE {})
  <1> DEFINE r == <<fr>> \o s
  <1>1. ASSUME NEW x \in Of(s, ops) PROVE x \in Of(r, ops)
    <2>1. PICK i \in DOMAIN s : s[i].op \in ops /\ x = s[i].b
      BY DEF Of
    <2>2. i + 1 \in DOMAIN r /\ r[i + 1] = s[i]
      BY Pushed
    <2>3. QED
      BY <2>1, <2>2 DEF Of
  <1>2. fr.op \in ops => fr.b \in Of(r, ops)
    BY Pushed DEF Of
  <1>3. ASSUME NEW x \in Of(r, ops) PROVE x \in Of(s, ops) \/ (fr.op \in ops /\ x = fr.b)
    BY Pushed DEF Of
  <1>4. QED
    BY <1>1, <1>2, <1>3

LEMMA OfOther ==
    ASSUME NEW s \in Seq(FrameSet), NEW fr \in FrameSet, NEW ops, fr.op \notin ops
    PROVE  Of(<<fr>> \o s, ops) = Of(s, ops)
  <1>1. Of(<<fr>> \o s, ops) = Of(s, ops) \cup {}
    BY Zenon, OfPushed
  <1>2. QED
    BY <1>1

LEMMA OfSuch ==
    ASSUME NEW s \in Seq(FrameSet), NEW fr \in FrameSet, NEW ops, fr.op \in ops
    PROVE  Of(<<fr>> \o s, ops) = Of(s, ops) \cup {fr.b}
  <1>1. Of(<<fr>> \o s, ops) = Of(s, ops) \cup (IF fr.op \in ops THEN {fr.b} ELSE {})
    BY OfPushed
  <1>2. QED
    BY <1>1

LEMMA BuildTyped ==
    ASSUME NEW bs \in Seq(BuildSet), NEW b \in DOMAIN bs
    PROVE  /\ bs[b] \in BuildSet
           /\ bs[b].by \in Threads /\ bs[b].t \in Types /\ bs[b].kids \in Seq(EncSet)
           /\ bs[b].f \in {"nil", "set"} /\ bs[b].wg \in {0, 1}
  <1>1. bs[b] \in BuildSet
    OBVIOUS
  <1>2. QED
    BY <1>1 DEF BuildSet

\* Two frames pushed.
LEMMA TwoPushed ==
    ASSUME NEW f1 \in FrameSet, NEW f2 \in FrameSet, NEW s \in Seq(FrameSet)
    PROVE  <<f1, f2>> \o s = <<f1>> \o (<<f2>> \o s)
  <1>1. <<f1>> \in Seq(FrameSet) /\ <<f2>> \in Seq(FrameSet)
    OBVIOUS
  <1>2. <<f1, f2>> = <<f1>> \o <<f2>>
    <2> DEFINE q == <<f1>> \o <<f2>>
    <2>1. q \in Seq(FrameSet) /\ Len(q) = 2 /\ q[1] = f1 /\ q[2] = f2
      BY Pushed, <1>1
    <2>2. <<f1, f2>> \in Seq(FrameSet) /\ Len(<<f1, f2>>) = 2
      OBVIOUS
    <2>3. \A i \in 1 .. 2 : <<f1, f2>>[i] = q[i]
      BY <2>1
    <2> HIDE DEF q
    <2>4. <<f1, f2>> = q
      BY <2>1, <2>2, <2>3, SeqEqual
    <2>5. QED
      BY <2>4 DEF q
  <1>3. (<<f1>> \o <<f2>>) \o s = <<f1>> \o (<<f2>> \o s)
    BY <1>1, ConcatAssociative
  <1>4. QED
    BY <1>2, <1>3

\* While a goroutine runs an encoder, or is outside of Marshal, it builds nothing.
LEMMA NoBuilds ==
    ASSUME NEW th, NEW bs, NEW s \in Seq(FrameSet), Stacked(s, th, bs),
           s = <<>> \/ Head(s).op \in Encodes
    PROVE  Of(s, Pending) = {} /\ Of(s, {"build", "done"}) = {}
  <1>1. CASE s = <<>>
    BY <1>1 DEF Of
  <1>2. CASE s # <<>> /\ Head(s).op \in Encodes
    <2>1. s[1].op \in Encodes
      BY <1>2, Frames
    <2>2. \A i \in DOMAIN s : i # 1 => s[i].op = "fields"
      <3>1. \A i \in DOMAIN s : i # 1 => 1 < i
        OBVIOUS
      <3>2. 1 \in DOMAIN s
        BY <1>2
      <3>3. QED
        BY <2>1, <3>1, <3>2 DEF Stacked
    <2>3. \A i \in DOMAIN s : s[i].op \notin Pending
      BY <2>1, <2>2 DEF Pending, Encodes
    <2>4. QED
      BY <2>3 DEF Of, Pending
  <1>3. QED
    BY <1>1, <1>2

-----------------------------------------------------------------------------
(* Builds only grow: nothing a stack, an encoder or the cache relies on is *)
(* taken back.                                                             *)

Grows(bs, new) ==
    /\ DOMAIN bs \subseteq DOMAIN new
    /\ \A b \in DOMAIN bs :
         /\ new[b].t = bs[b].t /\ new[b].by = bs[b].by
         /\ bs[b].f = "set" => new[b].f = "set"

\* No build in progress on the stack s has captured anything.
SameKids(s, bs, new) ==
    \A i \in DOMAIN s : s[i].op = "build" => new[s[i].b].kids = bs[s[i].b].kids

LEMMA ForGrows ==
    ASSUME NEW bs, NEW new, Grows(bs, new), NEW e, NEW t, For(e, t, bs)
    PROVE  For(e, t, new)
  BY DEF For, Grows

LEMMA FrameGrows ==
    ASSUME NEW th, NEW bs, NEW new, Grows(bs, new), NEW fr, FrameOK(fr, th, bs)
    PROVE  FrameOK(fr, th, new)
  <1>1. fr.op \in Pending => fr.b \in DOMAIN new /\ new[fr.b].by = th
    BY DEF FrameOK, Grows
  <1>2. fr.op \in {"done", "publish"} => new[fr.b].f = "set"
    BY DEF FrameOK, Grows, Pending
  <1>3. fr.op = "call" => For(fr.e, fr.t, new)
    BY ForGrows DEF FrameOK
  <1>4. fr.op = "fields" => fr.b \in DOMAIN new /\ fr.i # 0
    BY DEF FrameOK, Grows
  <1>5. QED
    BY <1>1, <1>2, <1>3, <1>4 DEF FrameOK

LEMMA AskedGrows ==
    ASSUME NEW th, NEW bs, NEW new, Grows(bs, new), NEW fr, FrameOK(fr, th, bs),
           fr.op \in Asks \cup Pending
    PROVE  Asked(fr, new) = Asked(fr, bs)
  BY DEF FrameOK, Grows, Asked

LEMMA WantsGrows ==
    ASSUME NEW th, NEW bs, NEW new, Grows(bs, new), NEW fr, FrameOK(fr, th, bs),
           fr.op = "build" => new[fr.b].kids = bs[fr.b].kids,
           NEW t, Wants(fr, t, bs)
    PROVE  Wants(fr, t, new)
  BY Zenon DEF FrameOK, Grows, Wants, Pending

LEMMA Kept ==
    ASSUME NEW th, NEW bs, NEW new, NEW s \in Seq(FrameSet), Stacked(s, th, bs),
           Grows(bs, new), SameKids(s, bs, new)
    PROVE  Stacked(s, th, new)
  <1>1. \A i \in DOMAIN s : FrameOK(s[i], th, new)
    BY FrameGrows DEF Stacked
  <1>2. ASSUME NEW i \in DOMAIN s, s[i].op \in Asks \cup Pending
        PROVE  i < Len(s) /\ Wants(s[i + 1], Asked(s[i], new), new)
    <2>1. i < Len(s) /\ Wants(s[i + 1], Asked(s[i], bs), bs)
      BY <1>2 DEF Stacked
    <2>2. i + 1 \in DOMAIN s
      BY <2>1
    <2>3. Asked(s[i], new) = Asked(s[i], bs)
      BY <1>2, AskedGrows DEF Stacked
    <2>4. Wants(s[i + 1], Asked(s[i], bs), new)
      BY <2>1, <2>2, WantsGrows DEF Stacked, SameKids
    <2>5. QED
      BY <2>1, <2>3, <2>4
  <1>3. QED
    BY <1>1, <1>2 DEF Stacked

LEMMA BuildGrows ==
    ASSUME NEW bs, NEW new, Grows(bs, new), NEW bd, BuildOK(bd, bs)
    PROVE  BuildOK(bd, new)
  BY ForGrows DEF BuildOK

LEMMA CacheGrows ==
    ASSUME NEW bs, NEW new, Grows(bs, new), NEW c, CacheOK(c, bs)
    PROVE  CacheOK(c, new)
  BY ForGrows DEF CacheOK

-----------------------------------------------------------------------------
(* What a step of one goroutine has to show.                               *)

LEMMA OfBuilds ==
    ASSUME NEW th, NEW bs, NEW s, Stacked(s, th, bs), NEW b \in Of(s, Pending)
    PROVE  b \in DOMAIN bs /\ bs[b].by = th
  BY DEF Of, Stacked, FrameOK

\* The cache entry of t is backed by a build that th is at, or was backed before
\* by one that th has not left.
Backed(th, r, t) ==
    \/ \E b \in Of(r, Pending) : builds'[b].t = t
    \/ /\ cache'[t] = cache[t]
       /\ \A b \in Of(stack[th], Pending) : builds[b].t = t => b \in Of(r, Pending)

\* wg.Done() of build b is still to come.
Releasing(th, r, b) ==
    IF builds'[b].by = th
      THEN b \in Of(r, {"build", "done"})
      ELSE b \in DOMAIN builds /\ builds[b].wg = 1

LEMMA StepKeeps ==
    ASSUME IInv, NEW th \in Threads, TypeOK', NEW r,
           stack' = [stack EXCEPT ![th] = r],
           Grows(builds, builds'),
           \A b \in DOMAIN builds : builds[b].by # th => builds'[b].kids = builds[b].kids,
           Stacked(r, th, builds'),
           BuildsOK(builds'), CacheOK(cache', builds'),
           \A t \in Types : cache'[t].fn = "indirect" => Backed(th, r, t),
           \A b \in DOMAIN builds' : builds'[b].wg = 1 => Releasing(th, r, b)
    PROVE  IInv'
  <1>1. stack'[th] = r /\ \A o \in Threads : o # th => stack'[o] = stack[o]
    BY DEF IInv, TypeOK
  <1>2. ASSUME NEW o \in Threads PROVE Stacked(stack'[o], o, builds')
    <2>1. CASE o = th
      BY <1>1, <2>1
    <2>2. CASE o # th
      <3>1. stack[o] \in Seq(FrameSet) /\ Stacked(stack[o], o, builds)
        BY Zenon DEF IInv, TypeOK
      <3>2. SameKids(stack[o], builds, builds')
        BY Zenon, <2>2, <3>1 DEF SameKids, Stacked, FrameOK, Pending
      <3>3. QED
        BY <1>1, <2>2, <3>1, <3>2, Kept
    <2>3. QED
      BY <2>1, <2>2
  <1>3. ASSUME NEW t \in Types, cache'[t].fn = "indirect"
        PROVE  \E o \in Threads : \E b \in Of(stack'[o], Pending) : builds'[b].t = t
    <2>1. CASE \E b \in Of(r, Pending) : builds'[b].t = t
      BY <1>1, <2>1
    <2>2. CASE /\ cache'[t] = cache[t]
               /\ \A b \in Of(stack[th], Pending) : builds[b].t = t => b \in Of(r, Pending)
      <3>1. PICK o \in Threads : \E b \in Of(stack[o], Pending) : builds[b].t = t
        BY <1>3, <2>2 DEF IInv, IndirectPending
      <3>2. PICK b \in Of(stack[o], Pending) : builds[b].t = t
        BY <3>1
      <3>3. b \in DOMAIN builds
        BY OfBuilds DEF IInv
      <3>4. builds'[b].t = t
        BY <3>2, <3>3 DEF Grows
      <3>5. b \in Of(stack'[o], Pending)
        BY <1>1, <2>2, <3>2
      <3>6. QED
        BY <3>4, <3>5
    <2>3. QED
      BY Zenon, <1>3, <2>1, <2>2 DEF Backed
  <1>4. ASSUME NEW b \in DOMAIN builds', builds'[b].wg = 1
        PROVE  b \in Of(stack'[builds'[b].by], {"build", "done"})
    <2>1. Releasing(th, r, b)
      BY <1>4
    <2>2. CASE builds'[b].by = th
      BY <1>1, <2>1, <2>2 DEF Releasing
    <2>3. CASE builds'[b].by # th
      <3>1. b \in DOMAIN builds /\ builds[b].wg = 1
        BY Zenon, <2>1, <2>3 DEF Releasing
      <3>2. builds'[b].by = builds[b].by /\ builds[b].by \in Threads
        BY <3>1, BuildTyped DEF Grows, IInv, TypeOK
      <3>3. b \in Of(stack[builds[b].by], {"build", "done"})
        BY <3>1 DEF IInv, Unreleased
      <3>4. QED
        BY <1>1, <2>3, <3>2, <3>3
    <2>4. QED
      BY <2>2, <2>3
  <1>5. IndirectPending' /\ Unreleased'
    BY <1>3, <1>4 DEF IndirectPending, Unreleased
  <1>6. QED
    BY <1>2, <1>5 DEF IInv

\* The steps that run an encoder touch only the stack.
LEMMA EncodingKeeps ==
    ASSUME IInv, NEW th \in Threads, TypeOK', NEW r,
           stack[th] = <<>> \/ Head(stack[th]).op \in Encodes,
           stack' = [stack EXCEPT ![th] = r],
           UNCHANGED <<cache, builds>>,
           Stacked(r, th, builds)
    PROVE  IInv'
  <1>1. Of(stack[th], Pending) = {} /\ Of(stack[th], {"build", "done"}) = {}
    BY NoBuilds DEF IInv, TypeOK
  <1>2. Grows(builds, builds')
    BY DEF Grows
  <1>3. \A t \in Types : Backed(th, r, t)
    BY <1>1 DEF Backed
  <1>4. \A b \in DOMAIN builds' : builds'[b].wg = 1 => Releasing(th, r, b)
    BY <1>1 DEF Releasing, IInv, Unreleased
  <1>5. Stacked(r, th, builds') /\ BuildsOK(builds') /\ CacheOK(cache', builds')
    BY DEF IInv
  <1>6. QED
    BY Zenon, <1>2, <1>3, <1>4, <1>5, StepKeeps

-----------------------------------------------------------------------------
(* The frames.                                                             *)

LEMMA FrameTyped ==
    ASSUME NEW fr \in FrameSet
    PROVE  /\ fr.op \in Asks \cup Pending \cup Encodes
           /\ fr.op \in Asks => fr.t \in Types
           /\ fr.op \in Pending => fr.b \in Nat
           /\ fr.op = "start" => fr.t \in Types /\ fr.n \in Nat
           /\ fr.op = "call" => fr.e \in EncSet /\ fr.t \in Types /\ fr.n \in Nat
           /\ fr.op = "fields" => fr.b \in Nat /\ fr.i \in Nat /\ fr.n \in Nat
  <1>1. CASE fr \in [op : {"look", "install"}, t : Types]
    BY <1>1 DEF Asks, Pending, Encodes
  <1>2. CASE fr \in [op : {"build", "done", "publish"}, b : Nat]
    BY <1>2 DEF Asks, Pending, Encodes
  <1>3. CASE fr \in [op : {"start"}, t : Types, n : Nat]
    BY <1>3 DEF Asks, Pending, Encodes
  <1>4. CASE fr \in [op : {"call"}, e : EncSet, t : Types, n : Nat]
    BY <1>4 DEF Asks, Pending, Encodes
  <1>5. CASE fr \in [op : {"fields"}, b : Nat, i : Nat, n : Nat]
    BY Zenon, <1>5 DEF Asks, Pending, Encodes
  <1>6. QED
    BY <1>1, <1>2, <1>3, <1>4, <1>5 DEF FrameSet

LEMMA FramesMade ==
    ASSUME NEW t \in Types, NEW n \in Nat, NEW b \in Nat, NEW i \in Nat, NEW e \in EncSet
    PROVE  /\ LookFrame(t) \in FrameSet /\ LookFrame(t).op = "look" /\ LookFrame(t).t = t
           /\ InstallFrame(t) \in FrameSet /\ InstallFrame(t).op = "install"
           /\ InstallFrame(t).t = t
           /\ BuildFrame(b) \in FrameSet /\ BuildFrame(b).op = "build" /\ BuildFrame(b).b = b
           /\ DoneFrame(b) \in FrameSet /\ DoneFrame(b).op = "done" /\ DoneFrame(b).b = b
           /\ PublishFrame(b) \in FrameSet /\ PublishFrame(b).op = "publish"
           /\ PublishFrame(b).b = b
           /\ StartFrame(t, n) \in FrameSet /\ StartFrame(t, n).op = "start"
           /\ StartFrame(t, n).t = t
           /\ CallFrame(e, t, n) \in FrameSet /\ CallFrame(e, t, n).op = "call"
           /\ CallFrame(e, t, n).e = e /\ CallFrame(e, t, n).t = t
           /\ FieldsFrame(b, i, n) \in FrameSet /\ FieldsFrame(b, i, n).op = "fields"
           /\ FieldsFrame(b, i, n).b = b /\ FieldsFrame(b, i, n).i = i
  BY Zenon DEF FrameSet, LookFrame, InstallFrame, BuildFrame, DoneFrame, PublishFrame,
         StartFrame, CallFrame, FieldsFrame

\* What is known of a goroutine inside Marshal.
LEMMA TopFrame ==
    ASSUME IInv, NEW th \in Threads, stack[th] # <<>>
    PROVE  /\ Head(stack[th]) \in FrameSet /\ Tail(stack[th]) \in Seq(FrameSet)
           /\ stack[th] = <<Head(stack[th])>> \o Tail(stack[th])
           /\ FrameOK(Head(stack[th]), th, builds)
           /\ Above(Head(stack[th]), Tail(stack[th]), builds)
           /\ Stacked(Tail(stack[th]), th, builds)
  <1>1. stack[th] \in Seq(FrameSet) /\ Stacked(stack[th], th, builds)
    BY DEF IInv, TypeOK
  <1>2. stack[th] = <<Head(stack[th])>> \o Tail(stack[th])
    BY <1>1
  <1>3. QED
    BY <1>1, <1>2, Pop, Frames

AllFields(s) == \A j \in DOMAIN s : s[j].op = "fields"

\* Encoders run on top of structs being encoded, and of nothing else.
LEMMA PushEncode ==
    ASSUME NEW th, NEW bs, NEW s \in Seq(FrameSet), Stacked(s, th, bs), AllFields(s),
           NEW fr \in FrameSet, fr.op \in Encodes, FrameOK(fr, th, bs)
    PROVE  Stacked(<<fr>> \o s, th, bs) /\ <<fr>> \o s \in Seq(FrameSet)
  <1>1. Above(fr, s, bs)
    BY DEF Above, AllFields, Encodes, Asks, Pending
  <1>2. QED
    BY <1>1, Push, Pushed

\* reflectValue asks for the encoder of the type of its value.
LEMMA PushLook ==
    ASSUME NEW th, NEW bs, NEW s \in Seq(FrameSet), Stacked(s, th, bs), AllFields(s),
           NEW t \in Types, NEW n \in Nat
    PROVE  LET r == <<LookFrame(t), StartFrame(t, n)>> \o s
           IN  Stacked(r, th, bs) /\ r \in Seq(FrameSet)
  <1> DEFINE l == LookFrame(t)
             st == StartFrame(t, n)
             q == <<st>> \o s
  <1>1. l \in FrameSet /\ l.op = "look" /\ l.t = t
    BY DEF LookFrame, FrameSet
  <1>2. st \in FrameSet /\ st.op = "start" /\ st.t = t
    BY DEF StartFrame, FrameSet
  <1>3. FrameOK(st, th, bs)
    BY <1>2 DEF FrameOK, Pending
  <1>4. Stacked(q, th, bs) /\ q \in Seq(FrameSet)
    BY <1>2, <1>3, PushEncode DEF Encodes
  <1>5. q # <<>> /\ q[1] = st
    BY <1>2, Pushed
  <1>6. FrameOK(l, th, bs)
    BY Zenon, <1>1 DEF FrameOK, Pending
  <1> HIDE DEF q, l, st
  <1>7. Above(l, q, bs)
    BY Zenon, <1>1, <1>2, <1>5 DEF Above, Asks, Pending, Encodes, Wants, Asked
  <1>8. Stacked(<<l>> \o q, th, bs) /\ <<l>> \o q \in Seq(FrameSet)
    BY <1>1, <1>4, <1>6, <1>7, Push, Pushed
  <1>9. <<l, st>> \o s = <<l>> \o q
    BY Zenon, <1>1, <1>2, TwoPushed DEF q
  <1>10. QED
    BY Zenon, <1>8, <1>9 DEF l, st

LEMMA Popped ==
    ASSUME NEW s \in Seq(FrameSet) PROVE <<>> \o s = s
  OBVIOUS

\* A goroutine that runs an encoder.
LEMMA AtEncoder ==
    ASSUME IInv, NEW th \in Threads, stack[th] # <<>>, Top(th).op \in Encodes
    PROVE  /\ AllFields(Tail(stack[th]))
           /\ Tail(stack[th]) \in Seq(FrameSet) /\ Stacked(Tail(stack[th]), th, builds)
           /\ Top(th) \in FrameSet /\ FrameOK(Top(th), th, builds)
  BY Zenon, TopFrame DEF Top, Above, AllFields

LEMMA AtCall ==
    ASSUME IInv, NEW th \in Threads, At(th, "call")
    PROVE  /\ stack[th] # <<>> /\ Top(th).op = "call" /\ Top(th).op \in Encodes
           /\ Top(th).e \in EncSet /\ Top(th).t \in Types /\ Top(th).n \in Nat
           /\ Top(th).e.b \in Nat /\ Top(th).e.b \in DOMAIN builds
           /\ For(Top(th).e, Top(th).t, builds)
           /\ builds[Top(th).e.b].t = Top(th).t
  <1>1. stack[th] # <<>> /\ Top(th).op = "call" /\ Top(th).op \in Encodes
    BY DEF At, Top, Encodes
  <1>2. Top(th) \in FrameSet /\ FrameOK(Top(th), th, builds)
    BY <1>1, AtEncoder
  <1>3. Top(th).e \in EncSet /\ Top(th).t \in Types /\ Top(th).n \in Nat
    BY <1>1, <1>2, FrameTyped
  <1>4. For(Top(th).e, Top(th).t, builds)
    BY <1>1, <1>2 DEF FrameOK
  <1>5. QED
    BY <1>1, <1>3, <1>4 DEF For, EncSet

\* The call is replaced by a frame of another encoder, or popped.
LEMMA CallReplaced ==
    ASSUME IInv, NEW th \in Threads, stack[th] # <<>>, Top(th).op \in Encodes,
           NEW r \in Seq(FrameSet), Stacked(r, th, builds),
           stack' = [stack EXCEPT ![th] = r],
           UNCHANGED <<cache, builds, calls>>,
           result' \in [Threads -> {"none", "ok", "error"}]
    PROVE  IInv'
  <1>1. TypeOK'
    BY Zenon DEF IInv, TypeOK
  <1>2. QED
    BY Zenon, <1>1, EncodingKeeps DEF Top

LEMMA FinishedTyped ==
    ASSUME IInv, NEW th \in Threads, NEW s
    PROVE  Finished(th, s) \in [Threads -> {"none", "ok", "error"}]
  BY DEF Finished, IInv, TypeOK

LEMMA MarshalKeeps ==
    ASSUME IInv, NEW th \in Threads, Marshal(th)
    PROVE  IInv'
  <1>1. PICK t \in Types : stack' = [stack EXCEPT ![th] = <<LookFrame(t), StartFrame(t, MaxNonNil)>>]
    BY Zenon DEF Marshal
  <1> DEFINE r == <<LookFrame(t), StartFrame(t, MaxNonNil)>>
  <1>2. <<>> \in Seq(FrameSet) /\ Stacked(<<>>, th, builds) /\ AllFields(<<>>)
    BY DEF Stacked, AllFields
  <1>3. r \o <<>> = r
    BY BoundsAssumption, FramesMade
  <1>4. Stacked(r, th, builds) /\ r \in Seq(FrameSet)
    BY Zenon, <1>2, <1>3, BoundsAssumption, PushLook
  <1> HIDE DEF r
  <1>5. stack' = [stack EXCEPT ![th] = r]
    BY <1>1 DEF r
  <1>6. TypeOK'
    <2>1. UNCHANGED <<cache, builds>> /\ calls' \in [Threads -> Nat]
      BY DEF Marshal, IInv, TypeOK
    <2>2. result' \in [Threads -> {"none", "ok", "error"}]
      BY DEF Marshal, IInv, TypeOK
    <2>3. stack' \in [Threads -> Seq(FrameSet)]
      BY <1>4, <1>5 DEF IInv, TypeOK
    <2>4. QED
      BY <2>1, <2>2, <2>3 DEF IInv, TypeOK
  <1>7. QED
    BY Zenon, <1>4, <1>5, <1>6, EncodingKeeps DEF Marshal

LEMMA CallIndirectKeeps ==
    ASSUME IInv, NEW th \in Threads, CallIndirect(th)
    PROVE  IInv'
  <1> DEFINE fr == CallFrame(Real(Top(th).e.b), Top(th).t, Top(th).n)
  <1>1. At(th, "call") /\ builds[Top(th).e.b].wg = 0
    BY Zenon DEF CallIndirect
  <1>2. BuildOK(builds[Top(th).e.b], builds)
    BY <1>1, AtCall DEF IInv, BuildsOK
  <1>3. Real(Top(th).e.b) \in EncSet /\ For(Real(Top(th).e.b), Top(th).t, builds)
    BY Zenon, <1>1, <1>2, AtCall DEF Real, EncSet, For, BuildOK
  <1>4. fr \in FrameSet /\ fr.op = "call" /\ FrameOK(fr, th, builds)
    BY <1>1, <1>3, AtCall DEF CallFrame, FrameSet, FrameOK, Pending
  <1> HIDE DEF fr
  <1>5. Stacked(<<fr>> \o Tail(stack[th]), th, builds) /\ <<fr>> \o Tail(stack[th]) \in Seq(FrameSet)
    BY Zenon, <1>1, <1>4, AtCall, AtEncoder, PushEncode DEF Encodes
  <1>6. stack' = [stack EXCEPT ![th] = <<fr>> \o Tail(stack[th])]
    BY Zenon DEF CallIndirect, Replace, fr, IInv, TypeOK
  <1>7. UNCHANGED <<cache, builds, calls>> /\ result' \in [Threads -> {"none", "ok", "error"}]
    BY DEF CallIndirect, IInv, TypeOK
  <1>8. QED
    BY Zenon, <1>1, <1>5, <1>6, <1>7, AtCall, CallReplaced

LEMMA EncodeLeafKeeps ==
    ASSUME IInv, NEW th \in Threads, EncodeLeaf(th)
    PROVE  IInv'
  <1>1. At(th, "call") /\ UNCHANGED <<cache, builds, calls>>
    BY Zenon DEF EncodeLeaf, Calling
  <1>2. stack' = [stack EXCEPT ![th] = Tail(stack[th])]
    BY <1>1, AtCall, AtEncoder, Popped DEF EncodeLeaf, Replace, IInv, TypeOK
  <1>3. QED
    BY Zenon, <1>1, <1>2, AtCall, AtEncoder, CallReplaced, FinishedTyped DEF EncodeLeaf

LEMMA EncodePtrKeeps ==
    ASSUME IInv, NEW th \in Threads, EncodePtr(th)
    PROVE  IInv'
  <1> DEFINE bd == builds[Top(th).e.b]
             fr == CallFrame(bd.kids[1], Kids[bd.t][1], Top(th).n - 1)
  <1>1. At(th, "call") /\ UNCHANGED <<cache, builds, calls, result>>
        /\ Top(th).e.fn = "real" /\ Kind[bd.t] = "ptr" /\ Top(th).n > 0
    BY Zenon DEF EncodePtr, Calling
  <1>2. BuildOK(bd, builds) /\ bd.f = "set"
    BY <1>1, AtCall DEF IInv, BuildsOK, For
  <1>3. bd.t \in Types /\ bd.kids \in Seq(EncSet)
    BY Zenon, <1>1, AtCall, BuildTyped DEF IInv, TypeOK
  <1>4. Kids[bd.t] \in Seq(Types) /\ Len(Kids[bd.t]) = 1
    BY Zenon, <1>1, <1>3, TypesAssumption
  <1>5. Len(bd.kids) = 1 /\ \A i \in DOMAIN bd.kids : For(bd.kids[i], Kids[bd.t][i], builds)
    BY Zenon, <1>2, <1>4 DEF BuildOK
  <1> HIDE DEF bd
  <1>6. bd.kids[1] \in EncSet /\ Kids[bd.t][1] \in Types /\ Top(th).n - 1 \in Nat
    BY <1>1, <1>3, <1>4, <1>5, AtCall
  <1>7. For(bd.kids[1], Kids[bd.t][1], builds)
    BY SMTT(20), <1>3, <1>5
  <1>8. fr \in FrameSet /\ fr.op = "call" /\ FrameOK(fr, th, builds)
    BY Zenon, <1>6, <1>7 DEF CallFrame, FrameSet, FrameOK, Pending
  <1>9. stack' = [stack EXCEPT ![th] = <<fr>> \o Tail(stack[th])]
    BY DEF EncodePtr, Replace, bd, IInv, TypeOK
  <1> HIDE DEF fr
  <1>10. Stacked(<<fr>> \o Tail(stack[th]), th, builds) /\ <<fr>> \o Tail(stack[th]) \in Seq(FrameSet)
    BY Zenon, <1>1, <1>8, AtCall, AtEncoder, PushEncode DEF Encodes
  <1>11. result' \in [Threads -> {"none", "ok", "error"}]
    BY <1>1 DEF IInv, TypeOK
  <1>12. QED
    BY Zenon, <1>1, <1>9, <1>10, <1>11, AtCall, CallReplaced

LEMMA EncodeInterfaceKeeps ==
    ASSUME IInv, NEW th \in Threads, EncodeInterface(th)
    PROVE  IInv'
  <1>1. At(th, "call") /\ UNCHANGED <<cache, builds, calls, result>> /\ Top(th).n > 0
    BY DEF EncodeInterface, Calling
  <1>2. PICK t \in Types : Replace(th, <<LookFrame(t), StartFrame(t, Top(th).n - 1)>>)
    BY Zenon DEF EncodeInterface
  <1> DEFINE r == <<LookFrame(t), StartFrame(t, Top(th).n - 1)>> \o Tail(stack[th])
  <1>3. Top(th).n - 1 \in Nat
    BY <1>1, AtCall
  <1>4. Stacked(r, th, builds) /\ r \in Seq(FrameSet)
    BY Zenon, <1>1, <1>3, AtCall, AtEncoder, PushLook
  <1>5. stack' = [stack EXCEPT ![th] = r]
    BY <1>2 DEF Replace, IInv, TypeOK
  <1>6. result' \in [Threads -> {"none", "ok", "error"}]
    BY <1>1 DEF IInv, TypeOK
  <1> HIDE DEF r
  <1>7. QED
    BY Zenon, <1>1, <1>4, <1>5, <1>6, AtCall, CallReplaced

LEMMA EncodeStructKeeps ==
    ASSUME IInv, NEW th \in Threads, EncodeStruct(th)
    PROVE  IInv'
  <1> DEFINE fr == FieldsFrame(Top(th).e.b, 1, Top(th).n)
  <1>1. At(th, "call") /\ UNCHANGED <<cache, builds, calls, result>>
    BY Zenon DEF EncodeStruct, Calling
  <1>2. fr \in FrameSet /\ fr.op = "fields" /\ FrameOK(fr, th, builds)
    BY <1>1, AtCall DEF FieldsFrame, FrameSet, FrameOK, Pending
  <1>3. stack' = [stack EXCEPT ![th] = <<fr>> \o Tail(stack[th])]
    BY DEF EncodeStruct, Replace, IInv, TypeOK
  <1> HIDE DEF fr
  <1>4. Stacked(<<fr>> \o Tail(stack[th]), th, builds) /\ <<fr>> \o Tail(stack[th]) \in Seq(FrameSet)
    BY Zenon, <1>1, <1>2, AtCall, AtEncoder, PushEncode DEF Encodes
  <1>5. result' \in [Threads -> {"none", "ok", "error"}]
    BY Zenon, <1>1 DEF IInv, TypeOK
  <1>6. QED
    BY Zenon, <1>1, <1>3, <1>4, <1>5, AtCall, CallReplaced

LEMMA EncodeFieldKeeps ==
    ASSUME IInv, NEW th \in Threads, EncodeField(th)
    PROVE  IInv'
  <1> DEFINE fr == Top(th)
             bd == builds[fr.b]
             s  == Tail(stack[th])
             f1 == CallFrame(bd.kids[fr.i], Kids[bd.t][fr.i], fr.n)
             f2 == FieldsFrame(fr.b, fr.i + 1, fr.n)
  <1>1. stack[th] # <<>> /\ fr.op = "fields" /\ fr.op \in Encodes
        /\ UNCHANGED <<cache, builds, calls>>
    BY DEF EncodeField, At, Top, Encodes
  <1>2. fr \in FrameSet /\ FrameOK(fr, th, builds) /\ s \in Seq(FrameSet)
        /\ Stacked(s, th, builds) /\ AllFields(s)
    BY Zenon, <1>1, AtEncoder
  <1>3. fr.b \in Nat /\ fr.i \in Nat /\ fr.n \in Nat /\ fr.b \in DOMAIN builds /\ fr.i # 0
    BY <1>1, <1>2, FrameTyped DEF FrameOK
  <1>4. CASE /\ fr.i <= Len(bd.kids)
             /\ Replace(th, <<f1, f2>>)
             /\ UNCHANGED result
    <2>1. bd.t \in Types /\ bd.kids \in Seq(EncSet) /\ BuildOK(bd, builds)
      BY <1>3, BuildTyped DEF IInv, TypeOK, BuildsOK
    <2>2. Kids[bd.t] \in Seq(Types)
      BY Zenon, <2>1, TypesAssumption
    <2>3. bd.kids[fr.i] \in EncSet /\ Kids[bd.t][fr.i] \in Types
      BY SMTT(20), <1>3, <1>4, <2>1, <2>2 DEF BuildOK
    <2>4. For(bd.kids[fr.i], Kids[bd.t][fr.i], builds)
      BY SMTT(20), <1>3, <1>4, <2>1 DEF BuildOK
    <2>5. f1 \in FrameSet /\ f1.op = "call" /\ FrameOK(f1, th, builds)
      BY Zenon, <1>3, <2>3, <2>4 DEF CallFrame, FrameSet, FrameOK, Pending
    <2>6. f2 \in FrameSet /\ f2.op = "fields" /\ FrameOK(f2, th, builds)
      BY <1>3 DEF FieldsFrame, FrameSet, FrameOK, Pending
    <2>7. stack' = [stack EXCEPT ![th] = <<f1, f2>> \o s]
      BY <1>4 DEF Replace, IInv, TypeOK
    <2> HIDE DEF f1, f2, s
    <2>8. Stacked(<<f2>> \o s, th, builds) /\ <<f2>> \o s \in Seq(FrameSet)
      BY Zenon, <1>2, <2>6, PushEncode DEF Encodes
    <2>9. AllFields(<<f2>> \o s)
      BY <1>2, <2>6, Pushed DEF AllFields
    <2>10. Stacked(<<f1>> \o (<<f2>> \o s), th, builds) /\ <<f1>> \o (<<f2>> \o s) \in Seq(FrameSet)
      BY Zenon, <2>5, <2>8, <2>9, PushEncode DEF Encodes
    <2>11. <<f1>> \o (<<f2>> \o s) = <<f1, f2>> \o s
      BY <1>2, <2>5, <2>6, TwoPushed
    <2>12. result' \in [Threads -> {"none", "ok", "error"}]
      BY <1>4 DEF IInv, TypeOK
    <2>13. QED
      BY Zenon, <1>1, <2>7, <2>10, <2>11, <2>12, CallReplaced
  <1>5. CASE /\ fr.i > Len(bd.kids)
             /\ Replace(th, <<>>)
             /\ result' = Finished(th, Tail(stack[th]))
    <2>1. stack' = [stack EXCEPT ![th] = s]
      BY <1>2, <1>5, Popped DEF Replace, IInv, TypeOK
    <2>2. QED
      BY Zenon, <1>1, <1>2, <1>5, <2>1, CallReplaced, FinishedTyped
  <1>6. QED
    BY ZenonT(30), <1>4, <1>5 DEF EncodeField

LEMMA EncodeUnsupportedKeeps ==
    ASSUME IInv, NEW th \in Threads, EncodeUnsupported(th)
    PROVE  IInv'
  <1>1. At(th, "call") /\ UNCHANGED <<cache, builds, calls>>
        /\ stack' = [stack EXCEPT ![th] = <<>>]
    BY DEF EncodeUnsupported, Calling
  <1>2. Stacked(<<>>, th, builds) /\ <<>> \in Seq(FrameSet)
    BY DEF Stacked
  <1>3. result' \in [Threads -> {"none", "ok", "error"}]
    BY Zenon DEF EncodeUnsupported, IInv, TypeOK
  <1>4. QED
    BY Zenon, <1>1, <1>2, <1>3, AtCall, CallReplaced

-----------------------------------------------------------------------------
(* The steps of typeEncoder.                                               *)

\* A goroutine at a frame of typeEncoder: what it was asked, and by whom.
LEMMA AtTypeEncoder ==
    ASSUME IInv, NEW th \in Threads, stack[th] # <<>>, Top(th).op \in Asks \cup Pending
    PROVE  /\ Top(th) \in FrameSet /\ FrameOK(Top(th), th, builds)
           /\ Tail(stack[th]) \in Seq(FrameSet) /\ Stacked(Tail(stack[th]), th, builds)
           /\ stack[th] = <<Top(th)>> \o Tail(stack[th])
           /\ Tail(stack[th]) # <<>>
           /\ Head(Tail(stack[th])) = Tail(stack[th])[1]
           /\ Wants(Head(Tail(stack[th])), Asked(Top(th), builds), builds)
           /\ Asked(Top(th), builds) \in Types
           /\ Top(th).op \in Pending =>
                /\ Top(th).b \in DOMAIN builds /\ Top(th).b \in Nat
                /\ builds[Top(th).b].by = th
                /\ \A j \in DOMAIN Tail(stack[th]) :
                     Tail(stack[th])[j].op \in Pending => Tail(stack[th])[j].b # Top(th).b
  <1>1. /\ Top(th) \in FrameSet /\ FrameOK(Top(th), th, builds)
        /\ Tail(stack[th]) \in Seq(FrameSet) /\ Stacked(Tail(stack[th]), th, builds)
        /\ stack[th] = <<Top(th)>> \o Tail(stack[th])
        /\ Above(Top(th), Tail(stack[th]), builds)
    BY Zenon, TopFrame DEF Top
  <1>2. Tail(stack[th]) # <<>> /\ Wants(Tail(stack[th])[1], Asked(Top(th), builds), builds)
    BY Zenon, <1>1 DEF Above
  <1>3. Head(Tail(stack[th])) = Tail(stack[th])[1]
    BY Zenon, <1>1, <1>2, Frames
  <1>4. Top(th).op \in Pending =>
            Top(th).b \in DOMAIN builds /\ Top(th).b \in Nat /\ builds[Top(th).b].by = th
    BY Zenon, <1>1, FrameTyped DEF FrameOK
  <1>5. Top(th).op \in Pending => builds[Top(th).b].t \in Types
    BY Zenon, <1>4, BuildTyped DEF IInv, TypeOK
  <1>6. Asked(Top(th), builds) \in Types
    BY <1>1, <1>5, FrameTyped DEF Asked
  <1>7. QED
    BY Zenon, <1>1, <1>2, <1>3, <1>4, <1>6 DEF Above

\* newTypeEncoder asks for the encoder of the next component.
LEMMA NextKidKeeps ==
    ASSUME IInv, NEW th \in Threads, NextKid(th)
    PROVE  IInv'
  <1> DEFINE bd == builds[Top(th).b]
             t  == Kids[bd.t][Len(bd.kids) + 1]
             fr == LookFrame(t)
             s  == stack[th]
  <1>1. /\ s # <<>> /\ Top(th).op = "build" /\ Len(bd.kids) < Len(Kids[bd.t])
        /\ stack' = [stack EXCEPT ![th] = <<fr>> \o s]
        /\ UNCHANGED <<cache, builds, calls, result>>
    BY Zenon DEF NextKid, At, Top, IInv, TypeOK
  <1>2. s \in Seq(FrameSet) /\ Stacked(s, th, builds) /\ Head(s) = s[1] /\ s[1] = Top(th)
    BY Zenon, <1>1, Frames DEF IInv, TypeOK, Top
  <1>3. Top(th).b \in DOMAIN builds
    BY Zenon, <1>1, AtTypeEncoder DEF Pending
  <1>4. bd.t \in Types /\ bd.kids \in Seq(EncSet) /\ Kids[bd.t] \in Seq(Types)
    BY <1>3, BuildTyped, TypesAssumption DEF IInv, TypeOK
  <1>5. t \in Types
    <2> HIDE DEF bd
    <2>1. Len(bd.kids) \in Nat /\ Len(Kids[bd.t]) \in Nat
      BY <1>4
    <2>2. Len(bd.kids) + 1 \in 1..Len(Kids[bd.t])
      BY <1>1, <2>1
    <2>3. \A q \in Seq(Types) : \A i \in 1..Len(q) : q[i] \in Types
      BY SMTT(20)
    <2> QED
      BY Zenon, <1>4, <2>2, <2>3
  <1>6. fr \in FrameSet /\ fr.op = "look" /\ fr.t = t
    BY <1>5 DEF LookFrame, FrameSet
  <1>7. FrameOK(fr, th, builds)
    BY Zenon, <1>6 DEF FrameOK, Pending
  <1>8. Wants(s[1], t, builds)
    BY <1>1, <1>2 DEF Wants
  <1> HIDE DEF s, fr, t
  <1>9. Above(fr, s, builds)
    BY Zenon, <1>1, <1>6, <1>8 DEF Above, Asked, Asks, Pending, Encodes
  <1>10. Stacked(<<fr>> \o s, th, builds) /\ <<fr>> \o s \in Seq(FrameSet)
    BY <1>2, <1>6, <1>7, <1>9, Push, Pushed
  <1>11. Of(<<fr>> \o s, Pending) = Of(s, Pending)
         /\ Of(<<fr>> \o s, {"build", "done"}) = Of(s, {"build", "done"})
    <2>1. fr.op \notin Pending /\ fr.op \notin {"build", "done"}
      BY <1>6 DEF Pending
    <2>2. QED
      BY <1>2, <1>6, <2>1, OfOther
  <1>12. TypeOK'
    BY <1>1, <1>10 DEF IInv, TypeOK
  <1>13. Grows(builds, builds')
    BY Zenon, <1>1 DEF Grows
  <1>14. \A x \in Types : Backed(th, <<fr>> \o s, x)
    BY Zenon, <1>1, <1>11 DEF Backed, s
  <1>15. \A b \in DOMAIN builds' : builds'[b].wg = 1 => Releasing(th, <<fr>> \o s, b)
    BY <1>1, <1>11 DEF Releasing, IInv, Unreleased, s
  <1>16. BuildsOK(builds') /\ CacheOK(cache', builds') /\ Stacked(<<fr>> \o s, th, builds')
    BY Zenon, <1>1, <1>10 DEF IInv
  <1>17. QED
    BY Zenon, <1>1, <1>12, <1>13, <1>14, <1>15, <1>16, StepKeeps

\* A frame of typeEncoder is replaced by one that will return an encoder of the
\* same type; the frames below do not notice.
LEMMA Retop ==
    ASSUME NEW th, NEW bs, NEW new, NEW s \in Seq(FrameSet), Stacked(s, th, bs),
           NEW old, old.op \in Asks \cup Pending, Above(old, s, bs),
           Grows(bs, new), SameKids(s, bs, new),
           NEW fr \in FrameSet, fr.op \in Asks \cup Pending, FrameOK(fr, th, new),
           Asked(fr, new) = Asked(old, bs),
           fr.op \in Pending => \A j \in DOMAIN s : s[j].op \in Pending => s[j].b # fr.b
    PROVE  Stacked(<<fr>> \o s, th, new) /\ <<fr>> \o s \in Seq(FrameSet)
  <1>1. Stacked(s, th, new)
    BY Zenon, Kept
  <1>2. s # <<>> /\ Wants(s[1], Asked(old, bs), bs)
    BY DEF Above
  <1>3. 1 \in DOMAIN s
    BY SMTT(20), <1>2
  <1>4. Wants(s[1], Asked(fr, new), new)
    BY Zenon, <1>2, <1>3, WantsGrows DEF Stacked, SameKids
  <1>5. fr.op \notin Encodes
    BY Zenon DEF Asks, Pending, Encodes
  <1>6. Above(fr, s, new)
    BY <1>2, <1>4, <1>5 DEF Above
  <1>7. QED
    BY Zenon, <1>1, <1>6, Push, Pushed

\* One build changes.
LEMMA Updated ==
    ASSUME NEW bs \in Seq(BuildSet), NEW b \in DOMAIN bs, NEW x \in BuildSet,
           NEW new, new = [bs EXCEPT ![b] = x]
    PROVE  /\ new \in Seq(BuildSet) /\ DOMAIN new = DOMAIN bs
           /\ new[b] = x
           /\ \A c \in DOMAIN bs : c # b => new[c] = bs[c]
  OBVIOUS

LEMMA UpdateBuilds ==
    ASSUME NEW bs, NEW b \in DOMAIN bs, NEW new, Grows(bs, new),
           DOMAIN new = DOMAIN bs,
           \A c \in DOMAIN bs : c # b => new[c] = bs[c],
           BuildsOK(bs), BuildOK(new[b], new)
    PROVE  BuildsOK(new)
  <1>1. ASSUME NEW c \in DOMAIN new PROVE BuildOK(new[c], new)
    <2>1. CASE c = b
      BY <2>1
    <2>2. CASE c # b
      BY <2>2, BuildGrows DEF BuildsOK
    <2>3. QED
      BY <2>1, <2>2
  <1>2. QED
    BY <1>1 DEF BuildsOK

\* f is assigned, or wg.Done() is called: the goroutine goes on with the same build.
LEMMA BuildStep ==
    ASSUME IInv, NEW th \in Threads, stack[th] # <<>>, Top(th).op \in {"build", "done"},
           NEW x \in BuildSet, builds' = [builds EXCEPT ![Top(th).b] = x],
           x.t = builds[Top(th).b].t, x.by = builds[Top(th).b].by,
           x.kids = builds[Top(th).b].kids, x.f = "set",
           Len(x.kids) = Len(Kids[x.t]),
           NEW fr \in FrameSet, fr.b = Top(th).b,
           fr.op \in {"done", "publish"}, fr.op = "publish" => x.wg = 0,
           Replace(th, <<fr>>), UNCHANGED <<cache, calls, result>>
    PROVE  IInv'
  <1> DEFINE s == Tail(stack[th])
             b == Top(th).b
             r == <<fr>> \o s
  <1>1. Top(th).op \in Pending /\ Top(th).op \in Asks \cup Pending /\ fr.op \in Pending
    BY ZenonT(30) DEF Pending
  <1>2. /\ Top(th) \in FrameSet /\ FrameOK(Top(th), th, builds)
        /\ s \in Seq(FrameSet) /\ Stacked(s, th, builds) /\ stack[th] = <<Top(th)>> \o s
        /\ b \in DOMAIN builds /\ b \in Nat /\ builds[b].by = th
        /\ \A j \in DOMAIN s : s[j].op \in Pending => s[j].b # b
    BY <1>1, AtTypeEncoder
  <1>3. Above(Top(th), s, builds)
    BY Zenon, TopFrame DEF Top
  <1>4. builds \in Seq(BuildSet) /\ BuildsOK(builds)
    BY DEF IInv, TypeOK
  <1>5. /\ builds' \in Seq(BuildSet) /\ DOMAIN builds' = DOMAIN builds /\ builds'[b] = x
        /\ \A c \in DOMAIN builds : c # b => builds'[c] = builds[c]
    BY Zenon, <1>2, <1>4, Updated
  <1>6. Grows(builds, builds')
    BY <1>2, <1>5 DEF Grows
  <1>7. BuildsOK(builds')
    <2>1. BuildOK(builds[b], builds')
      BY <1>2, <1>4, <1>6, BuildGrows DEF BuildsOK
    <2>2. BuildOK(builds'[b], builds')
      BY Zenon, <1>5, <2>1 DEF BuildOK
    <2> HIDE DEF b
    <2>3. /\ b \in DOMAIN builds /\ DOMAIN builds' = DOMAIN builds /\ BuildsOK(builds)
          /\ \A c \in DOMAIN builds : c # b => builds'[c] = builds[c]
      BY Zenon, <1>2, <1>4, <1>5
    <2>4. \A bs, new : /\ b \in DOMAIN bs /\ DOMAIN new = DOMAIN bs /\ BuildsOK(bs)
                       /\ \A c \in DOMAIN bs : c # b => new[c] = bs[c]
                       /\ Grows(bs, new) /\ BuildOK(new[b], new)
                       => BuildsOK(new)
      BY Zenon, UpdateBuilds
    <2>5. QED
      BY Zenon, <1>6, <2>2, <2>3, <2>4
  <1>8. CacheOK(cache', builds')
    BY Zenon, <1>6, CacheGrows DEF IInv
  <1>9. FrameOK(fr, th, builds')
    BY Zenon, <1>1, <1>2, <1>5 DEF FrameOK, Pending
  <1>10. Asked(fr, builds') = Asked(Top(th), builds)
    BY SMTT(20), <1>1, <1>5 DEF Asked, Asks, Pending
  <1>11. SameKids(s, builds, builds')
    BY Zenon, <1>2, <1>5 DEF SameKids, Pending, Stacked, FrameOK
  <1>12. Stacked(r, th, builds') /\ r \in Seq(FrameSet)
    BY Zenon, <1>1, <1>2, <1>3, <1>6, <1>9, <1>10, <1>11, Retop
  <1>13. stack' = [stack EXCEPT ![th] = r]
    BY Zenon DEF Replace, IInv, TypeOK
  <1>14. Of(r, Pending) = Of(s, Pending) \cup {b} /\ Of(stack[th], Pending) = Of(s, Pending) \cup {b}
    BY Zenon, <1>1, <1>2, OfSuch
  <1>15. Of(stack[th], {"build", "done"}) = Of(s, {"build", "done"}) \cup {b}
    BY Zenon, <1>2, OfSuch
  <1>16. Of(s, {"build", "done"}) \subseteq Of(r, {"build", "done"})
         /\ (fr.op = "done" => b \in Of(r, {"build", "done"}))
    BY Zenon, <1>2, OfSuch, OfOther
  <1> HIDE DEF r
  <1>17. TypeOK'
    BY Zenon, <1>5, <1>12, <1>13 DEF IInv, TypeOK
  <1>18. \A t \in Types : Backed(th, r, t)
    BY <1>14 DEF Backed
  <1>19. ASSUME NEW c \in DOMAIN builds', builds'[c].wg = 1 PROVE Releasing(th, r, c)
    <2>1. CASE c = b
      BY <1>2, <1>5, <1>16, <1>19, <2>1 DEF Releasing
    <2>2. CASE c # b
      BY Zenon, <1>5, <1>15, <1>16, <1>19, <2>2 DEF Releasing, IInv, Unreleased
    <2>3. QED
      BY Zenon, <2>1, <2>2
  <1>20. \A c \in DOMAIN builds : builds[c].by # th => builds'[c].kids = builds[c].kids
    BY <1>2, <1>5
  <1>21. QED
    BY Zenon, <1>6, <1>7, <1>8, <1>12, <1>13, <1>17, <1>18, <1>19, <1>20, StepKeeps

LEMMA AssignKeeps ==
    ASSUME IInv, NEW th \in Threads, Assign(th)
    PROVE  IInv'
  <1> DEFINE b == Top(th).b
             x == [builds[b] EXCEPT !.f = "set"]
             fr == DoneFrame(b)
  <1>1. stack[th] # <<>> /\ Top(th).op = "build"
    BY DEF Assign, At, Top
  <1>2. b \in DOMAIN builds /\ b \in Nat
    BY Zenon, <1>1, AtTypeEncoder DEF Pending
  <1>3. builds[b] \in BuildSet
    BY <1>2, BuildTyped DEF IInv, TypeOK
  <1>4. /\ x \in BuildSet /\ x.t = builds[b].t /\ x.by = builds[b].by
        /\ x.kids = builds[b].kids /\ x.f = "set"
    BY <1>3 DEF BuildSet
  <1>5. builds' = [builds EXCEPT ![b] = x] /\ Len(x.kids) = Len(Kids[x.t])
    BY Zenon, <1>4 DEF Assign
  <1>6. fr \in FrameSet /\ fr.op = "done" /\ fr.b = b
    BY <1>2 DEF DoneFrame, FrameSet
  <1>7. Replace(th, <<fr>>) /\ UNCHANGED <<cache, calls, result>>
    BY DEF Assign
  <1>8. Top(th).op \in {"build", "done"}
    BY <1>1
  <1> HIDE DEF x, fr
  <1>9. QED
    BY Zenon, <1>1, <1>4, <1>5, <1>6, <1>7, <1>8, BuildStep

LEMMA DoneKeeps ==
    ASSUME IInv, NEW th \in Threads, Done(th)
    PROVE  IInv'
  <1> DEFINE b == Top(th).b
             x == [builds[b] EXCEPT !.wg = 0]
             fr == PublishFrame(b)
  <1>1. stack[th] # <<>> /\ Top(th).op = "done"
    BY DEF Done, At, Top
  <1>2. b \in DOMAIN builds /\ b \in Nat /\ FrameOK(Top(th), th, builds)
    BY Zenon, <1>1, AtTypeEncoder DEF Pending
  <1>3. builds[b] \in BuildSet /\ builds[b].f = "set"
    BY <1>1, <1>2, BuildTyped DEF IInv, TypeOK, FrameOK
  <1>4. /\ x \in BuildSet /\ x.t = builds[b].t /\ x.by = builds[b].by
        /\ x.kids = builds[b].kids /\ x.f = "set" /\ x.wg = 0
    BY <1>3 DEF BuildSet
  <1>5. builds' = [builds EXCEPT ![b] = x]
    BY <1>4 DEF Done
  <1>6. Len(x.kids) = Len(Kids[x.t])
    BY Zenon, <1>2, <1>3, <1>4 DEF IInv, BuildsOK, BuildOK
  <1>7. fr \in FrameSet /\ fr.op = "publish" /\ fr.b = b
    BY <1>2 DEF PublishFrame, FrameSet
  <1>8. Replace(th, <<fr>>) /\ UNCHANGED <<cache, calls, result>>
    BY DEF Done
  <1> HIDE DEF x, fr
  <1>9. QED
    BY Zenon, <1>1, <1>4, <1>5, <1>6, <1>7, <1>8, BuildStep

LEMMA Appended ==
    ASSUME NEW bs \in Seq(BuildSet), NEW x \in BuildSet
    PROVE  LET new == Append(bs, x)
               b   == Len(bs) + 1
           IN  /\ new \in Seq(BuildSet) /\ DOMAIN new = DOMAIN bs \cup {b}
               /\ new[b] = x /\ b \notin DOMAIN bs /\ b \in Nat
               /\ \A c \in DOMAIN bs : new[c] = bs[c]
  OBVIOUS

LEMMA InstallKeeps ==
    ASSUME IInv, NEW th \in Threads, Install(th)
    PROVE  IInv'
  <1> DEFINE s == Tail(stack[th])
             t == Top(th).t
             b == Len(builds) + 1
             x == Build(th, t)
             fr == BuildFrame(b)
             r == <<fr>> \o s
  <1>1. /\ stack[th] # <<>> /\ Top(th).op = "install" /\ Top(th).op \in Asks
        /\ Top(th).op \in Asks \cup Pending
    BY Zenon DEF Install, At, Top, Asks
  <1>2. /\ Top(th) \in FrameSet /\ s \in Seq(FrameSet) /\ Stacked(s, th, builds)
        /\ stack[th] = <<Top(th)>> \o s
    BY <1>1, AtTypeEncoder
  <1>3. Above(Top(th), s, builds) /\ t \in Types
    BY Zenon, <1>1, <1>2, TopFrame, FrameTyped DEF Top
  <1>4. builds \in Seq(BuildSet) /\ BuildsOK(builds) /\ CacheOK(cache, builds)
    BY Zenon DEF IInv, TypeOK
  <1>5. x \in BuildSet /\ x.by = th /\ x.t = t /\ x.kids = <<>> /\ x.f = "nil" /\ x.wg = 1
    BY <1>3 DEF Build, BuildSet
  <1>6. builds' = Append(builds, x)
    BY Zenon DEF Install
  <1> HIDE DEF x
  <1>7. /\ builds' \in Seq(BuildSet) /\ DOMAIN builds' = DOMAIN builds \cup {b}
        /\ builds'[b] = x /\ b \notin DOMAIN builds /\ b \in Nat
        /\ \A c \in DOMAIN builds : builds'[c] = builds[c]
    BY <1>4, <1>5, <1>6, Appended
  <1> HIDE DEF b
  <1>8. Grows(builds, builds')
    BY <1>7 DEF Grows
  <1>9. BuildsOK(builds')
    <2>1. ASSUME NEW c \in DOMAIN builds' PROVE BuildOK(builds'[c], builds')
      <3>1. CASE c = b
        <4>1. Kids[t] \in Seq(Types)
          BY Zenon, <1>3, TypesAssumption
        <4>2. BuildOK(x, builds')
          BY <1>5, <4>1 DEF BuildOK
        <4>3. QED
          BY <1>7, <3>1, <4>2
      <3>2. CASE c # b
        BY <1>4, <1>7, <1>8, <3>2, BuildGrows DEF BuildsOK
      <3>3. QED
        BY <3>1, <3>2
    <2>2. QED
      BY <2>1 DEF BuildsOK
  <1>10. cache' = [cache EXCEPT ![t] = Indirect(b)] /\ cache \in [Types -> EncSet]
    BY DEF Install, b, IInv, TypeOK
  <1>11. Indirect(b) \in EncSet /\ For(Indirect(b), t, builds')
    BY <1>5, <1>7 DEF Indirect, EncSet, For
  <1>12. CacheOK(cache', builds')
    <2>1. CacheOK(cache, builds')
      BY Zenon, <1>4, <1>8, CacheGrows
    <2>2. QED
      BY <1>3, <1>10, <1>11, <2>1 DEF CacheOK
  <1>13. fr \in FrameSet /\ fr.op = "build" /\ fr.b = b /\ fr.op \in Pending
         /\ fr.op \in Asks \cup Pending
    BY <1>7 DEF BuildFrame, FrameSet, Pending
  <1>14. stack' = [stack EXCEPT ![th] = r]
    BY Zenon DEF Install, Replace, b, IInv, TypeOK
  <1> HIDE DEF fr
  <1>15. FrameOK(fr, th, builds')
    BY <1>5, <1>7, <1>13 DEF FrameOK, Pending
  <1>16. Asked(fr, builds') = Asked(Top(th), builds)
    BY ZenonT(30), <1>1, <1>5, <1>7, <1>13 DEF Asked, Asks
  <1>17. \A j \in DOMAIN s : s[j].op \in Pending => s[j].b \in DOMAIN builds
    BY Zenon, <1>2 DEF Stacked, FrameOK
  <1>18. SameKids(s, builds, builds')
    BY <1>7, <1>17 DEF SameKids, Pending
  <1>19. Stacked(r, th, builds') /\ r \in Seq(FrameSet)
    BY Zenon, <1>1, <1>2, <1>3, <1>7, <1>8, <1>13, <1>15, <1>16, <1>17, <1>18, Retop
  <1>20. Of(r, Pending) = Of(s, Pending) \cup {b}
         /\ Of(r, {"build", "done"}) = Of(s, {"build", "done"}) \cup {b}
    BY Zenon, <1>2, <1>13, OfSuch
  <1>21. Of(stack[th], Pending) = Of(s, Pending)
         /\ Of(stack[th], {"build", "done"}) = Of(s, {"build", "done"})
    <2>1. Top(th).op \notin Pending /\ Top(th).op \notin {"build", "done"}
      BY <1>1 DEF Pending
    <2>2. QED
      BY Zenon, <1>2, <2>1, OfOther
  <1> HIDE DEF r, s
  <1>22. TypeOK'
    <2>1. cache' \in [Types -> EncSet] /\ stack' \in [Threads -> Seq(FrameSet)]
      BY Zenon, <1>3, <1>10, <1>11, <1>14, <1>19 DEF IInv, TypeOK
    <2>2. QED
      BY <1>7, <2>1 DEF Install, IInv, TypeOK
  <1>23. ASSUME NEW u \in Types PROVE Backed(th, r, u)
    <2>1. CASE u = t
      BY Zenon, <1>5, <1>7, <1>20, <2>1 DEF Backed
    <2>2. CASE u # t
      BY <1>10, <1>20, <1>21, <2>2 DEF Backed
    <2>3. QED
      BY Zenon, <2>1, <2>2
  <1>24. ASSUME NEW c \in DOMAIN builds', builds'[c].wg = 1 PROVE Releasing(th, r, c)
    <2>1. CASE c = b
      BY Zenon, <1>5, <1>7, <1>20, <2>1 DEF Releasing
    <2>2. CASE c # b
      BY Zenon, <1>7, <1>20, <1>21, <1>24, <2>2 DEF Releasing, IInv, Unreleased
    <2>3. QED
      BY <2>1, <2>2
  <1>25. \A c \in DOMAIN builds : builds[c].by # th => builds'[c].kids = builds[c].kids
    BY <1>7
  <1>26. QED
    BY Zenon, <1>8, <1>9, <1>12, <1>14, <1>19, <1>22, <1>23, <1>24, <1>25, StepKeeps

\* Losing the top frame backs every entry of the cache and releases every waiter
\* that it has to.
Leaves(th) ==
    LET s == Tail(stack[th])
    IN  /\ \A t \in Types : cache'[t].fn = "indirect" =>
             /\ cache'[t] = cache[t]
             /\ \A b \in Of(stack[th], Pending) : builds[b].t = t => b \in Of(s, Pending)
        /\ \A b \in Of(stack[th], {"build", "done"}) : b \in Of(s, {"build", "done"})

\* typeEncoder returns to reflectValue, which calls the encoder.
LEMMA DeliverToStart ==
    ASSUME IInv, NEW th \in Threads, stack[th] # <<>>, Top(th).op \in Asks \cup Pending,
           NEW e \in EncSet, For(e, Asked(Top(th), builds), builds),
           Deliver(th, e, builds), Head(Tail(stack[th])).op = "start",
           cache' \in [Types -> EncSet], CacheOK(cache', builds), Leaves(th),
           UNCHANGED <<calls, result>>
    PROVE  IInv'
  <1> DEFINE s == Tail(stack[th])
             st == Head(s)
             q == Tail(s)
             fr == CallFrame(e, st.t, st.n)
             r == <<fr>> \o q
  <1>1. /\ s \in Seq(FrameSet) /\ Stacked(s, th, builds) /\ s # <<>>
        /\ Wants(st, Asked(Top(th), builds), builds) /\ st.op = "start"
    BY Zenon, AtTypeEncoder
  <1>2. st \in FrameSet /\ q \in Seq(FrameSet) /\ s = <<st>> \o q
    BY Zenon, <1>1, FramesSplit
  <1>3. Stacked(q, th, builds) /\ Above(st, q, builds)
    BY Zenon, <1>1, Pop
  <1>4. AllFields(q)
    BY <1>1, <1>3 DEF Above, AllFields, Encodes
  <1>5. st.t \in Types /\ st.n \in Nat /\ For(e, st.t, builds)
    BY Zenon, <1>1, <1>2, FrameTyped DEF Wants
  <1>6. fr \in FrameSet /\ fr.op = "call" /\ fr.op \in Encodes /\ FrameOK(fr, th, builds)
    BY Zenon, <1>5 DEF CallFrame, FrameSet, FrameOK, Pending, Encodes
  <1>7. stack' = [stack EXCEPT ![th] = r] /\ builds' = builds
    BY Zenon, <1>1 DEF Deliver
  <1> HIDE DEF fr, q, st, s
  <1>8. Stacked(r, th, builds) /\ r \in Seq(FrameSet)
    BY Zenon, <1>2, <1>3, <1>4, <1>6, PushEncode
  <1>9. Of(r, Pending) = Of(s, Pending) /\ Of(r, {"build", "done"}) = Of(s, {"build", "done"})
    <2>1. fr.op \notin Pending /\ fr.op \notin {"build", "done"}
          /\ st.op \notin Pending /\ st.op \notin {"build", "done"}
      BY <1>1, <1>6 DEF Pending
    <2>2. QED
      BY Zenon, <1>2, <1>6, <2>1, OfOther
  <1> HIDE DEF r
  <1>10. TypeOK'
    BY Zenon, <1>7, <1>8 DEF IInv, TypeOK
  <1>11. Grows(builds, builds') /\ BuildsOK(builds') /\ Stacked(r, th, builds')
         /\ CacheOK(cache', builds')
    BY Zenon, <1>7, <1>8 DEF Grows, IInv
  <1>12. \A t \in Types : cache'[t].fn = "indirect" => Backed(th, r, t)
    BY Zenon, <1>9 DEF Backed, Leaves, s
  <1>13. \A b \in DOMAIN builds' : builds'[b].wg = 1 => Releasing(th, r, b)
    BY Zenon, <1>7, <1>9 DEF Releasing, Leaves, IInv, Unreleased, s
  <1>14. \A c \in DOMAIN builds : builds[c].by # th => builds'[c].kids = builds[c].kids
    BY <1>7
  <1>15. QED
    BY Zenon, <1>7, <1>10, <1>11, <1>12, <1>13, <1>14, StepKeeps

\* typeEncoder returns to newTypeEncoder, which captures the encoder.
LEMMA DeliverToBuild ==
    ASSUME IInv, NEW th \in Threads, stack[th] # <<>>, Top(th).op \in Asks \cup Pending,
           NEW e \in EncSet, For(e, Asked(Top(th), builds), builds),
           Deliver(th, e, builds), Head(Tail(stack[th])).op # "start",
           cache' \in [Types -> EncSet], CacheOK(cache', builds), Leaves(th),
           UNCHANGED <<calls, result>>
    PROVE  IInv'
  <1> DEFINE s == Tail(stack[th])
             bf == Head(s)
             q == Tail(s)
             b == bf.b
             bd == builds[b]
             x == [bd EXCEPT !.kids = Append(bd.kids, e)]
  <1>1. /\ s \in Seq(FrameSet) /\ Stacked(s, th, builds) /\ s # <<>>
        /\ Wants(bf, Asked(Top(th), builds), builds)
    BY Zenon, AtTypeEncoder
  <1>2. /\ bf.op = "build" /\ Len(bd.kids) < Len(Kids[bd.t])
        /\ Kids[bd.t][Len(bd.kids) + 1] = Asked(Top(th), builds)
    BY Zenon, <1>1 DEF Wants
  <1>3. bf \in FrameSet /\ q \in Seq(FrameSet) /\ s = <<bf>> \o q
    BY Zenon, <1>1, FramesSplit
  <1>4. Stacked(q, th, builds) /\ Above(bf, q, builds) /\ FrameOK(bf, th, builds)
    BY Zenon, <1>1, Pop
  <1>5. bf.op \in Pending /\ bf.op \in Asks \cup Pending
    BY Zenon, <1>2 DEF Pending
  <1>6. b \in DOMAIN builds /\ bd.by = th
    BY Zenon, <1>4, <1>5 DEF FrameOK
  <1>7. builds \in Seq(BuildSet) /\ BuildsOK(builds) /\ BuildOK(bd, builds)
    BY Zenon, <1>6 DEF IInv, TypeOK, BuildsOK
  <1>8. bd \in BuildSet /\ bd.kids \in Seq(EncSet) /\ bd.t \in Types
    BY Zenon, <1>6, <1>7, BuildTyped
  <1>9. stack' = [stack EXCEPT ![th] = s] /\ builds' = [builds EXCEPT ![b] = x]
    BY Zenon, <1>8 DEF Deliver
  <1> HIDE DEF bd, b
  <1>10. Append(bd.kids, e) \in Seq(EncSet)
    BY <1>8
  <1>11. /\ x \in BuildSet /\ x.t = bd.t /\ x.by = bd.by /\ x.f = bd.f /\ x.wg = bd.wg
         /\ x.kids = Append(bd.kids, e)
    BY Zenon, <1>8, <1>10 DEF BuildSet
  <1> HIDE DEF x
  <1>12. /\ builds' \in Seq(BuildSet) /\ DOMAIN builds' = DOMAIN builds /\ builds'[b] = x
         /\ \A c \in DOMAIN builds : c # b => builds'[c] = builds[c]
    BY Zenon, <1>6, <1>7, <1>9, <1>11, Updated
  <1>13. Grows(builds, builds')
    <2>1. builds'[b].t = builds[b].t /\ builds'[b].by = builds[b].by /\ builds'[b].f = builds[b].f
      BY Zenon, <1>11, <1>12 DEF bd
    <2>2. QED
      BY Zenon, <1>12, <2>1 DEF Grows
  <1>14. BuildsOK(builds')
    <2>1. BuildOK(bd, builds') /\ For(e, Kids[bd.t][Len(bd.kids) + 1], builds')
      BY Zenon, <1>2, <1>7, <1>13, BuildGrows, ForGrows
    <2>2. /\ Len(x.kids) = Len(bd.kids) + 1 /\ x.kids[Len(bd.kids) + 1] = e
          /\ \A i \in DOMAIN x.kids : i # Len(bd.kids) + 1 =>
                 i \in DOMAIN bd.kids /\ x.kids[i] = bd.kids[i]
      BY SMTT(20), <1>8, <1>11
    <2>3. Kids[bd.t] \in Seq(Types) /\ Len(bd.kids) \in Nat /\ Len(Kids[bd.t]) \in Nat
      BY SMTT(20), <1>8, TypesAssumption
    <2>4. bd.f # "set" /\ bd.wg # 0
      BY SMTT(20), <1>2, <1>7, <2>3 DEF BuildOK
    <2>5. \A i \in DOMAIN x.kids : For(x.kids[i], Kids[x.t][i], builds')
      BY Zenon, <1>11, <2>1, <2>2 DEF BuildOK
    <2>6. Len(x.kids) <= Len(Kids[x.t])
      BY SMTT(20), <1>2, <1>11, <2>2, <2>3
    <2>7. BuildOK(x, builds')
      BY Zenon, <1>11, <2>4, <2>5, <2>6 DEF BuildOK
    <2>8. QED
      BY Zenon, <1>6, <1>7, <1>12, <1>13, <2>7, UpdateBuilds
  <1>15. CacheOK(cache', builds')
    BY <1>13, CacheGrows
  <1>16. \A j \in DOMAIN q : q[j].op \in Pending => q[j].b # b /\ q[j].b \in DOMAIN builds
    BY Zenon, <1>4, <1>5 DEF Above, Stacked, FrameOK, b
  <1>17. SameKids(q, builds, builds')
    BY Zenon, <1>12, <1>16 DEF SameKids, Pending
  <1> HIDE DEF q, bf, s
  <1>18. FrameOK(bf, th, builds') /\ Asked(bf, builds') = Asked(bf, builds)
    <2>1. FrameOK(bf, th, builds')
      BY ZenonT(30), <1>4, <1>13, FrameGrows
    <2>2. Asked(bf, builds') = Asked(bf, builds)
      BY <1>4, <1>5, <1>13, AskedGrows
    <2>3. QED
      BY <2>1, <2>2
  <1>19. Stacked(s, th, builds')
    BY Zenon, <1>3, <1>4, <1>5, <1>13, <1>16, <1>17, <1>18, Retop DEF b
  <1>20. TypeOK'
    BY Zenon, <1>1, <1>9, <1>12 DEF IInv, TypeOK
  <1>21. \A t \in Types : cache'[t].fn = "indirect" => Backed(th, s, t)
    BY Zenon DEF Backed, Leaves, s
  <1>22. ASSUME NEW c \in DOMAIN builds', builds'[c].wg = 1 PROVE Releasing(th, s, c)
    <2>1. c \in DOMAIN builds /\ builds[c].wg = 1 /\ builds'[c].by = builds[c].by
      BY Zenon, <1>11, <1>12, <1>22 DEF bd
    <2>2. c \in Of(stack[builds[c].by], {"build", "done"})
      BY ZenonT(30), <2>1 DEF IInv, Unreleased
    <2>3. QED
      BY Zenon, <2>1, <2>2 DEF Releasing, Leaves, s
  <1>23. \A c \in DOMAIN builds : builds[c].by # th => builds'[c].kids = builds[c].kids
    BY <1>6, <1>12 DEF bd
  <1>24. QED
    BY Zenon, <1>9, <1>13, <1>14, <1>15, <1>19, <1>20, <1>21, <1>22, <1>23, StepKeeps

LEMMA DeliverKeeps ==
    ASSUME IInv, NEW th \in Threads, stack[th] # <<>>, Top(th).op \in Asks \cup Pending,
           NEW e \in EncSet, For(e, Asked(Top(th), builds), builds),
           Deliver(th, e, builds),
           cache' \in [Types -> EncSet], CacheOK(cache', builds), Leaves(th),
           UNCHANGED <<calls, result>>
    PROVE  IInv'
  <1>1. CASE Head(Tail(stack[th])).op = "start"
    BY Zenon, <1>1, DeliverToStart
  <1>2. CASE Head(Tail(stack[th])).op # "start"
    BY Zenon, <1>2, DeliverToBuild
  <1>3. QED
    BY Zenon, <1>1, <1>2

LEMMA LookupKeeps ==
    ASSUME IInv, NEW th \in Threads, Lookup(th)
    PROVE  IInv'
  <1> DEFINE s == Tail(stack[th])
             t == Top(th).t
             e == cache[t]
  <1>1. /\ stack[th] # <<>> /\ Top(th).op = "look" /\ Top(th).op \in Asks
        /\ Top(th).op \in Asks \cup Pending /\ UNCHANGED <<cache, calls, result>>
    BY Zenon DEF Lookup, At, Top, Asks
  <1>2. /\ Top(th) \in FrameSet /\ s \in Seq(FrameSet) /\ Stacked(s, th, builds)
        /\ stack[th] = <<Top(th)>> \o s
    BY <1>1, AtTypeEncoder
  <1>3. t \in Types /\ Asked(Top(th), builds) = t /\ Above(Top(th), s, builds)
    BY Zenon, <1>1, <1>2, FrameTyped, TopFrame DEF Asked, Top
  <1>4. cache \in [Types -> EncSet] /\ CacheOK(cache, builds)
    BY DEF IInv, TypeOK
  <1>5. Of(stack[th], Pending) = Of(s, Pending)
        /\ Of(stack[th], {"build", "done"}) = Of(s, {"build", "done"})
    <2>1. Top(th).op \notin Pending /\ Top(th).op \notin {"build", "done"}
      BY Zenon, <1>1 DEF Pending
    <2>2. QED
      BY Zenon, <1>2, <2>1, OfOther
  <1>6. CASE e # None /\ Deliver(th, e, builds)
    <2>1. e \in EncSet /\ For(e, Asked(Top(th), builds), builds)
      BY Zenon, <1>3, <1>4, <1>6 DEF CacheOK
    <2>2. Leaves(th)
      BY Zenon, <1>1, <1>5 DEF Leaves
    <2>3. cache' \in [Types -> EncSet] /\ CacheOK(cache', builds)
      BY <1>1, <1>4
    <2> HIDE DEF e
    <2>4. QED
      BY Zenon, <1>1, <1>6, <2>1, <2>2, <2>3, DeliverKeeps
  <1>7. CASE e = None /\ Replace(th, <<InstallFrame(t)>>) /\ UNCHANGED builds
    <2> DEFINE fr == InstallFrame(t)
               r == <<fr>> \o s
    <2>1. fr \in FrameSet /\ fr.op = "install" /\ fr.t = t /\ fr.op \in Asks
          /\ fr.op \in Asks \cup Pending /\ fr.op \notin Pending
      BY <1>3 DEF InstallFrame, FrameSet, Asks, Pending
    <2>2. stack' = [stack EXCEPT ![th] = r]
      BY Zenon, <1>7 DEF Replace, IInv, TypeOK
    <2> HIDE DEF fr
    <2>3. FrameOK(fr, th, builds) /\ Asked(fr, builds) = Asked(Top(th), builds)
      BY <1>3, <2>1 DEF FrameOK, Asked, Pending
    <2>4. Grows(builds, builds) /\ SameKids(s, builds, builds)
      BY DEF Grows, SameKids
    <2>5. Stacked(r, th, builds) /\ r \in Seq(FrameSet)
      BY Zenon, <1>1, <1>2, <1>3, <2>1, <2>3, <2>4, Retop
    <2>6. Of(r, Pending) = Of(s, Pending) /\ Of(r, {"build", "done"}) = Of(s, {"build", "done"})
      <3>1. fr.op \notin {"build", "done"}
        BY Zenon, <2>1
      <3>2. QED
        BY Zenon, <1>2, <2>1, <3>1, OfOther
    <2> HIDE DEF r, s
    <2>7. TypeOK'
      BY <1>1, <1>7, <2>2, <2>5 DEF IInv, TypeOK
    <2>8. \A u \in Types : Backed(th, r, u)
      BY Zenon, <1>1, <1>5, <2>6 DEF Backed
    <2>9. \A b \in DOMAIN builds' : builds'[b].wg = 1 => Releasing(th, r, b)
      BY ZenonT(30), <1>5, <1>7, <2>6 DEF Releasing, IInv, Unreleased
    <2>10. /\ Grows(builds, builds') /\ Stacked(r, th, builds')
           /\ BuildsOK(builds') /\ CacheOK(cache', builds')
           /\ \A c \in DOMAIN builds : builds[c].by # th => builds'[c].kids = builds[c].kids
      BY <1>1, <1>7, <2>4, <2>5 DEF IInv
    <2>11. QED
      BY Zenon, <2>2, <2>7, <2>8, <2>9, <2>10, StepKeeps
  <1>8. QED
    BY Zenon, <1>6, <1>7 DEF Lookup

LEMMA PublishKeeps ==
    ASSUME IInv, NEW th \in Threads, Publish(th)
    PROVE  IInv'
  <1> DEFINE s == Tail(stack[th])
             b == Top(th).b
             t == builds[b].t
             e == Real(b)
  <1>1. /\ stack[th] # <<>> /\ Top(th).op = "publish" /\ Top(th).op \in Pending
        /\ Top(th).op \in Asks \cup Pending /\ Top(th).op \notin Asks
        /\ UNCHANGED <<calls, result>> /\ Deliver(th, e, builds)
        /\ cache' = [cache EXCEPT ![t] = e]
    BY Zenon DEF Publish, At, Top, Asks, Pending
  <1>2. /\ Top(th) \in FrameSet /\ s \in Seq(FrameSet) /\ FrameOK(Top(th), th, builds)
        /\ stack[th] = <<Top(th)>> \o s /\ b \in DOMAIN builds /\ b \in Nat
        /\ Asked(Top(th), builds) \in Types
    BY Zenon, <1>1, AtTypeEncoder
  <1>3. t \in Types /\ Asked(Top(th), builds) = t /\ builds[b].f = "set"
    BY Zenon, <1>1, <1>2 DEF Asked, FrameOK
  <1>4. e \in EncSet /\ For(e, t, builds) /\ e.fn = "real"
    BY Zenon, <1>2, <1>3 DEF Real, EncSet, For
  <1> HIDE DEF e
  <1>5. cache \in [Types -> EncSet] /\ CacheOK(cache, builds)
    BY DEF IInv, TypeOK
  <1>6. cache' \in [Types -> EncSet] /\ CacheOK(cache', builds)
    BY <1>1, <1>3, <1>4, <1>5 DEF CacheOK
  <1>7. Of(stack[th], Pending) = Of(s, Pending) \cup {b}
    BY Zenon, <1>1, <1>2, OfSuch
  <1>8. Of(stack[th], {"build", "done"}) = Of(s, {"build", "done"})
    <2>1. Top(th).op \notin {"build", "done"}
      BY <1>1
    <2>2. QED
      BY Zenon, <1>2, <2>1, OfOther
  <1>9. Leaves(th)
    <2>1. ASSUME NEW u \in Types, cache'[u].fn = "indirect"
          PROVE  u # t /\ cache'[u] = cache[u]
      BY <1>1, <1>3, <1>4, <1>5, <2>1
    <2>2. QED
      BY ZenonT(30), <1>7, <1>8, <2>1 DEF Leaves
  <1>10. QED
    BY Zenon, <1>1, <1>3, <1>4, <1>6, <1>9, DeliverKeeps

-----------------------------------------------------------------------------
(* The theorems.                                                           *)

LEMMA InitIInv == Init => IInv
  <1> SUFFICES ASSUME Init PROVE IInv
    OBVIOUS
  <1>1. TypeOK
    BY DEF Init, TypeOK, None, EncSet
  <1>2. BuildsOK(builds) /\ CacheOK(cache, builds)
    BY DEF Init, BuildsOK, CacheOK
  <1>3. \A th \in Threads : Stacked(stack[th], th, builds)
    <2>1. \A th \in Threads : stack[th] = <<>>
      BY Zenon DEF Init
    <2>2. \A th : Stacked(<<>>, th, builds)
      BY DEF Stacked
    <2>3. QED
      BY Zenon, <2>1, <2>2
  <1>4. IndirectPending /\ Unreleased
    BY DEF Init, IndirectPending, Unreleased, None
  <1>5. QED
    BY <1>1, <1>2, <1>3, <1>4 DEF IInv

LEMMA NextIInv == IInv /\ [Next]_vars => IInv'
  <1> SUFFICES ASSUME IInv, [Next]_vars PROVE IInv'
    BY Zenon
  <1>1. CASE UNCHANGED vars
    BY <1>1 DEF vars, IInv, TypeOK, IndirectPending, Unreleased
  <1>2. ASSUME NEW th \in Threads, TypeEncoderStep(th) PROVE IInv'
    BY Zenon, <1>2, LookupKeeps, InstallKeeps, NextKidKeeps, AssignKeeps, DoneKeeps, PublishKeeps
    DEF TypeEncoderStep
  <1>3. ASSUME NEW th \in Threads, EncodeStep(th) PROVE IInv'
    BY <1>3, CallIndirectKeeps, EncodeLeafKeeps, EncodePtrKeeps, EncodeInterfaceKeeps,
       EncodeStructKeeps, EncodeFieldKeeps, EncodeUnsupportedKeeps
    DEF EncodeStep
  <1>4. QED
    BY <1>1, <1>2, <1>3, MarshalKeeps DEF Next, Step

\* What json/encode.go keeps true of the cache, the builds and the call stacks,
\* through every interleaving of typeEncoder and the encoders.
THEOREM CacheInvariant == Spec => []IInv
  <1>1. QED
    BY InitIInv, NextIInv, PTL DEF Spec

LEMMA IInvCallsBuilt == IInv => CallsBuilt
  <1> SUFFICES ASSUME IInv, NEW th \in Threads, At(th, "call")
               PROVE  LET e == Top(th).e IN
                      /\ builds[e.b].t = Top(th).t
                      /\ (e.fn = "indirect" => builds[e.b].wg = 0) =>
                             builds[e.b].f = "set"
                             /\ Len(builds[e.b].kids) = Len(Kids[Top(th).t])
    BY DEF CallsBuilt
  <1> DEFINE e == Top(th).e
             bd == builds[e.b]
  <1>1. For(e, Top(th).t, builds) /\ bd.t = Top(th).t /\ e.b \in DOMAIN builds
    BY Zenon, AtCall
  <1>2. BuildOK(bd, builds)
    BY ZenonT(30), <1>1 DEF IInv, BuildsOK
  <1>3. (e.fn = "indirect" => bd.wg = 0) => bd.f = "set"
    BY <1>1, <1>2 DEF For, BuildOK
  <1>4. QED
    BY Zenon, <1>1, <1>2, <1>3 DEF BuildOK

\* No call of an encoder reaches f before newTypeEncoder has returned, nor the
\* encoder of another type than that of the value (typeEncoder, reflectValue).
THEOREM EncoderCallsBuilt == Spec => []CallsBuilt
  <1>1. QED
    BY CacheInvariant, IInvCallsBuilt, PTL

LEMMA IInvQuiet == IInv => QuietCacheIsReal
  <1> SUFFICES ASSUME IInv, \A th \in Threads : stack[th] = <<>>,
                      NEW t \in Types, cache[t].fn = "indirect"
               PROVE  FALSE
    BY Zenon DEF QuietCacheIsReal
  <1>1. PICK th \in Threads : \E b \in Of(stack[th], Pending) : builds[b].t = t
    BY DEF IInv, IndirectPending
  <1>2. Of(stack[th], Pending) = {}
    BY SMTT(20) DEF Of
  <1>3. QED
    BY <1>1, <1>2

\* When no Marshal runs, the cache of json/encode.go holds real encoders only.
THEOREM QuietEncoderCache == Spec => []QuietCacheIsReal
  <1>1. QED
    BY CacheInvariant, IInvQuiet, PTL

LEMMA IInvWaits == IInv => WaitsOnBuilder
  <1> SUFFICES ASSUME IInv, NEW th \in Threads, At(th, "call"), Top(th).e.fn = "indirect",
                      builds[Top(th).e.b].wg # 0
               PROVE  LET o == builds[Top(th).e.b].by
                      IN  o # th /\ stack[o] # <<>> /\ Top(o).op \in Asks \cup Pending
    BY DEF WaitsOnBuilder
  <1> DEFINE b == Top(th).e.b
             o == builds[b].by
  <1>1. b \in DOMAIN builds
    BY Zenon, AtCall
  <1>2. o \in Threads /\ builds[b].wg = 1
    BY Zenon, <1>1, BuildTyped DEF IInv, TypeOK
  <1>3. b \in Of(stack[o], {"build", "done"})
    BY Zenon, <1>1, <1>2 DEF IInv, Unreleased
  <1>4. stack[o] \in Seq(FrameSet) /\ Stacked(stack[o], o, builds)
    BY ZenonT(30), <1>2 DEF IInv, TypeOK
  <1>5. stack[o] # <<>>
    BY <1>3 DEF Of
  <1>6. Top(o).op \notin Encodes
    BY Zenon, <1>3, <1>4, <1>5, NoBuilds DEF Top
  <1>7. Top(o).op \in Asks \cup Pending
    BY Zenon, <1>2, <1>5, <1>6, TopFrame, FrameTyped DEF Top
  <1>8. o # th
    BY <1>6, AtCall
  <1>9. QED
    BY Zenon, <1>5, <1>7, <1>8

\* A goroutine in wg.Wait() waits for another one that is inside typeEncoder, so
\* that goroutines never wait on each other in a circle.
THEOREM WaitersWaitOnBuilders == Spec => []WaitsOnBuilder
  <1>1. QED
    BY CacheInvariant, IInvWaits, PTL

=============================================================================
