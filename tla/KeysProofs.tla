----------------------------- MODULE KeysProofs -----------------------------
(***************************************************************************)
(* Proofs about keys, for every instance: the encryption of content keys   *)
(* (the Concat KDF reader and AES key wrap of an ECDH-ES recipient, and    *)
(* the salt of a PBES2 cipher that goroutines share) and the key files of  *)
(* jose-util.                                                              *)
(***************************************************************************)
EXTENDS EcdhWrap, Pbes2, KeyFiles, TLAPS

(***************************************************************************)
(* Facts about sequences.                                                  *)
(***************************************************************************)
\* A function on 1 .. n is a sequence.
LEMMA FunctionIsSeq ==
    ASSUME NEW S, NEW n \in Nat, NEW f \in [1 .. n -> S]
    PROVE  f \in Seq(S) /\ Len(f) = n
OBVIOUS

\* Only the empty sequence has no element.
LEMMA EmptySeq ==
    ASSUME NEW S
    PROVE  /\ <<>> \in Seq(S) /\ Len(<<>>) = 0
           /\ \A s \in Seq(S) : s # <<>> => Len(s) \in Nat \ {0}
OBVIOUS

\* A sequence is a function on its indices.
LEMMA LenProperties ==
    ASSUME NEW S, NEW s \in Seq(S)
    PROVE  Len(s) \in Nat /\ s \in [1 .. Len(s) -> S] /\ DOMAIN s = 1 .. Len(s)
OBVIOUS

\* The elements of a sequence over S are in S.
LEMMA ElementOfSeq ==
    ASSUME NEW S, NEW s \in Seq(S), NEW i \in 1 .. Len(s)
    PROVE  s[i] \in S
OBVIOUS

\* Replacing an element keeps the length and the other elements.
LEMMA ExceptSeq ==
    ASSUME NEW S, NEW s \in Seq(S), NEW n \in 1 .. Len(s), NEW x \in S
    PROVE  LET t == [s EXCEPT ![n] = x]
           IN  /\ t \in Seq(S) /\ Len(t) = Len(s)
               /\ \A i \in 1 .. Len(s) : t[i] = IF i = n THEN x ELSE s[i]
OBVIOUS

\* Sequences are equal when their elements are.
LEMMA SeqEqual ==
    ASSUME NEW S, NEW s \in Seq(S), NEW t \in Seq(S), Len(s) = Len(t),
           \A i \in 1 .. Len(s) : s[i] = t[i]
    PROVE  s = t
OBVIOUS

\* The elements of a concatenation.
LEMMA ConcatProperties ==
    ASSUME NEW S, NEW s \in Seq(S), NEW t \in Seq(S)
    PROVE  /\ s \o t \in Seq(S) /\ Len(s \o t) = Len(s) + Len(t)
           /\ \A i \in 1 .. Len(s) + Len(t) :
                 (s \o t)[i] = IF i <= Len(s) THEN s[i] ELSE t[i - Len(s)]
OBVIOUS

\* The first element and the others.
LEMMA HeadTailProperties ==
    ASSUME NEW S, NEW s \in Seq(S), s # <<>>
    PROVE  /\ Head(s) \in S /\ Tail(s) \in Seq(S) /\ Len(Tail(s)) = Len(s) - 1
           /\ \A i \in 1 .. Len(Tail(s)) : Tail(s)[i] = s[i + 1]
OBVIOUS

(***************************************************************************)
(* Key files: for any number of processes, key ids and keys, the two files *)
(* of a pair always belong together, and what a successful command wrote   *)
(* stays.                                                                  *)
(*                                                                         *)
(* Neither property is inductive.  The strengthening says how far the      *)
(* files of a running process are (Staged), and that keys of running       *)
(* processes differ (DistinctKeys), so that no two of them are past the    *)
(* exclusive creation of the same public file.                             *)
(***************************************************************************)

Writing == {"writePub", "openPriv", "writePriv"}

DistinctKeys ==
    /\ \A p \in Procs : job[p].key <= keys
    /\ \A p \in Procs : stage[p] \in Stages \cup {"ok"} => job[p].key # 0
    /\ \A p, q \in Procs :
         stage[p] \in Stages /\ stage[q] \in Stages /\ p # q => job[p].key # job[q].key

Staged ==
    \A p \in Procs :
        /\ stage[p] = "writePub" =>
               pub[job[p].name] = File(job[p].key, "partial") /\ ~Exists(priv[job[p].name])
        /\ stage[p] = "openPriv" =>
               pub[job[p].name] = File(job[p].key, "whole") /\ ~Exists(priv[job[p].name])
        /\ stage[p] = "writePriv" =>
               /\ pub[job[p].name] = File(job[p].key, "whole")
               /\ priv[job[p].name] = File(job[p].key, "partial")

FilesInv == TypeOK /\ PairMatches /\ ReturnedIsStored /\ DistinctKeys /\ Staged

USE DEF Extents

(* What openFile and write leave is a file of the key.                     *)
LEMMA FileBuilt ==
    ASSUME NEW key \in 0 .. MaxKeys, NEW text \in Extents
    PROVE  /\ File(key, text) \in Files
           /\ File(key, text).key = key
           /\ File(key, text).text = text
  BY DEF File, Files

(* The job of a new key has a name, whether the key id is given or not.    *)
LEMMA JobBuilt ==
    ASSUME NEW key \in 0 .. MaxKeys, NEW kid \in Kids \cup {NoKid}
    PROVE  /\ Job(kid, key).key = key
           /\ Job(kid, key) \in [key : 0 .. MaxKeys, name : Names]
<1>1. (IF kid = NoKid THEN key ELSE 0) \in 0 .. MaxKeys
  BY KeysAssumption
<1>2. NameOf(kid, key) \in Names
  BY <1>1 DEF NameOf, Names
<1> QED
  BY <1>2 DEF Job

(* A file says which key it is of and whether it is complete.              *)
LEMMA FileInjective ==
    ASSUME NEW j \in 0 .. MaxKeys, NEW l \in 0 .. MaxKeys
    PROVE  /\ File(j, "whole") # File(l, "partial")
           /\ \A c, b \in Extents : File(j, c) = File(l, b) => j = l
<1>1. File(j, "whole").text = "whole" /\ File(l, "partial").text = "partial"
  BY DEF File
<1>2. \A c \in Extents : File(j, c).key = j /\ File(l, c).key = l
  BY DEF File
<1> QED
  BY <1>1, <1>2

(* The files are empty and no process runs (FilesInit).                    *)
LEMMA FilesInvInit == FilesInit => FilesInv
<1> SUFFICES ASSUME FilesInit PROVE FilesInv
  OBVIOUS
<1>1. 0 \in 0 .. MaxKeys
  BY KeysAssumption
<1>2. NoFile \in Files /\ ~Exists(NoFile)
  BY <1>1, FileBuilt DEF NoFile, Exists
<1>3. Job(NoKid, 0) \in [key : 0 .. MaxKeys, name : Names] /\ Job(NoKid, 0).key = 0
  BY <1>1, JobBuilt
<1> QED
  BY <1>1, <1>2, <1>3 DEF FilesInit, FilesInv, TypeOK, PairMatches, ReturnedIsStored, DistinctKeys,
     Staged, Stages, Resting

Stage(p, l, f, g) ==
    /\ l = "writePub" => f = File(job[p].key, "partial") /\ ~Exists(g)
    /\ l = "openPriv" => f = File(job[p].key, "whole") /\ ~Exists(g)
    /\ l \in {"writePriv"} => f = File(job[p].key, "whole") /\ g = File(job[p].key, "partial")
    /\ l = "ok" => f = File(job[p].key, "whole") /\ g = File(job[p].key, "whole")

Others(p, q) == q # p /\ job[q].name = job[p].name /\ stage[q] \in Writing \cup {"ok"}

(* A process that has created its public file is the only one that counts  *)
(* on the pair: a second one would have written the same file.             *)
LEMMA Alone ==
    ASSUME FilesInv, NEW p \in Procs, NEW q \in Procs, stage[p] \in Writing, Others(p, q)
    PROVE  FALSE
<1> DEFINE n == job[p].name
<1>1. /\ job[p].key \in 0 .. MaxKeys /\ job[q].key \in 0 .. MaxKeys
      /\ n \in Names /\ stage[p] \in Stages
  BY DEF FilesInv, TypeOK, Writing, Stages
<1>2. \E c \in Extents : pub[n] = File(job[p].key, c)
  BY DEF FilesInv, Staged, Writing
<1>3. \E b \in Extents : pub[n] = File(job[q].key, b)
  BY DEF FilesInv, Staged, Writing, Others, ReturnedIsStored
<1>4. job[p].key = job[q].key
  BY Zenon, <1>1, <1>2, <1>3, FileInjective
<1>5. stage[q] = "ok"
  BY <1>1, <1>4 DEF FilesInv, DistinctKeys, Others, Writing, Stages
<1>6. /\ pub[n] = File(job[q].key, "whole")
      /\ priv[n] = File(job[q].key, "whole")
  BY <1>5 DEF FilesInv, ReturnedIsStored, Others
<1>7. Exists(priv[n])
  BY <1>1, <1>5, <1>6, FileBuilt DEF FilesInv, DistinctKeys, Exists
<1>8. CASE stage[p] = "writePub"
  BY <1>7, <1>8 DEF FilesInv, Staged
<1>9. CASE stage[p] = "openPriv"
  BY <1>7, <1>9 DEF FilesInv, Staged
<1>10. CASE stage[p] = "writePriv"
  <2>1. priv[n] = File(job[p].key, "partial")
    BY <1>10 DEF FilesInv, Staged
  <2> QED
    BY <2>1, <1>1, <1>6, FileInjective
<1> QED
  BY <1>8, <1>9, <1>10 DEF Writing

(* Nobody counts on a pair without a public file.                          *)
LEMMA NoneYet ==
    ASSUME FilesInv, NEW p \in Procs, NEW q \in Procs, ~Exists(pub[job[p].name]), Others(p, q)
    PROVE  FALSE
<1>1. job[q].key \in 0 .. MaxKeys /\ job[q].key # 0
  BY DEF FilesInv, TypeOK, DistinctKeys, Others, Writing, Stages
<1>2. \E b \in Extents : pub[job[p].name] = File(job[q].key, b)
  BY DEF FilesInv, Staged, Writing, Others, ReturnedIsStored
<1> QED
  BY <1>1, <1>2, FileBuilt DEF Exists

(* What a step of process p does to its pair keeps the invariant, when it  *)
(* leaves a matching pair in the state its next stage expects and nobody   *)
(* else counts on the pair as it was.                                      *)
LEMMA Moves ==
    ASSUME FilesInv, NEW p \in Procs, NEW l \in (Stages \cup Resting) \ {"openPub"},
           NEW f \in Files, NEW g \in Files, stage[p] \in Stages,
           stage' = [stage EXCEPT ![p] = l],
           pub' = [pub EXCEPT ![job[p].name] = f],
           priv' = [priv EXCEPT ![job[p].name] = g],
           job' = job, keys' = keys,
           Exists(g) => f = File(g.key, "whole"),
           Stage(p, l, f, g),
           \/ f = pub[job[p].name] /\ g = priv[job[p].name]
           \/ \A q \in Procs : ~Others(p, q)
    PROVE  FilesInv'
<1> DEFINE n == job[p].name
<1>1. n \in Names /\ job[p].key \in 0 .. MaxKeys
  BY DEF FilesInv, TypeOK
<1>2. \A m \in Names : /\ pub'[m] = IF m = n THEN f ELSE pub[m]
                       /\ priv'[m] = IF m = n THEN g ELSE priv[m]
  BY DEF FilesInv, TypeOK
<1>3. \A q \in Procs : stage'[q] = IF q = p THEN l ELSE stage[q]
  BY DEF FilesInv, TypeOK
<1>4. \A q \in Procs : job[q].name \in Names
  BY DEF FilesInv, TypeOK
<1>5. TypeOK'
  BY DEF FilesInv, TypeOK
<1>6. PairMatches'
  BY <1>2 DEF FilesInv, PairMatches
<1>7. ASSUME NEW q \in Procs, q # p, stage[q] \in Writing \cup {"ok"}
      PROVE  /\ pub'[job[q].name] = pub[job[q].name]
             /\ priv'[job[q].name] = priv[job[q].name]
  BY <1>2, <1>4, <1>7 DEF Others
<1>8. ReturnedIsStored'
  <2> SUFFICES ASSUME NEW q \in Procs, stage'[q] = "ok"
               PROVE  /\ pub'[job[q].name] = File(job[q].key, "whole")
                      /\ priv'[job[q].name] = File(job[q].key, "whole")
    BY DEF ReturnedIsStored
  <2>1. CASE q = p
    BY Zenon, <2>1, <1>1, <1>2, <1>3 DEF Stage
  <2>2. CASE q # p
    BY <2>2, <1>3, <1>7 DEF FilesInv, ReturnedIsStored
  <2> QED
    BY <2>1, <2>2
<1>9. DistinctKeys'
  BY ZenonT(30), <1>3 DEF FilesInv, DistinctKeys, Stages, Resting
<1>10. Staged'
  <2> SUFFICES ASSUME NEW q \in Procs
               PROVE  Stage(q, stage'[q], pub'[job[q].name], priv'[job[q].name])
    BY Zenon DEF Staged, Stage
  <2>1. CASE q = p
    BY Zenon, <2>1, <1>1, <1>2, <1>3
  <2>2. CASE q # p /\ stage[q] \in Writing \cup {"ok"}
    BY <2>2, <1>3, <1>7 DEF FilesInv, Staged, ReturnedIsStored, Stage
  <2>3. CASE q # p /\ stage[q] \notin Writing \cup {"ok"}
    BY <2>3, <1>3 DEF Stage, Writing
  <2> QED
    BY Zenon, <2>1, <2>2, <2>3
<1> QED
  BY <1>5, <1>6, <1>8, <1>9, <1>10 DEF FilesInv

(* Every step of generate, a crash and a clean-up keep the invariant.      *)
LEMMA FilesInvNext == FilesInv /\ [FilesNext]_filesVars => FilesInv'
<1> SUFFICES ASSUME FilesInv, [FilesNext]_filesVars PROVE FilesInv'
  OBVIOUS
<1>0. ASSUME NEW p \in Procs
      PROVE  /\ job[p].name \in Names /\ job[p].key \in 0 .. MaxKeys
             /\ pub[job[p].name] \in Files /\ priv[job[p].name] \in Files
             /\ pub = [pub EXCEPT ![job[p].name] = pub[job[p].name]]
             /\ priv = [priv EXCEPT ![job[p].name] = priv[job[p].name]]
  BY DEF FilesInv, TypeOK
<1>1. ASSUME NEW p \in Procs, Generate(p) PROVE FilesInv'
  <2>1. PICK kid \in Kids \cup {NoKid} : job' = [job EXCEPT ![p] = Job(kid, keys + 1)]
    BY Zenon, <1>1 DEF Generate
  <2>2. keys + 1 \in 0 .. MaxKeys /\ keys' = keys + 1
    BY <1>1, KeysAssumption DEF Generate, FilesInv, TypeOK
  <2>3. /\ Job(kid, keys + 1) \in [key : 0 .. MaxKeys, name : Names]
        /\ Job(kid, keys + 1).key = keys + 1
    BY <2>2, JobBuilt
  <2>4. \A q \in Procs : /\ q # p => job'[q] = job[q] /\ stage'[q] = stage[q]
                         /\ job'[p].key = keys + 1 /\ stage'[p] = "openPub"
    BY <1>1, <2>1, <2>3 DEF Generate, GoTo, FilesInv, TypeOK
  <2>5. TypeOK'
    BY <1>1, <2>1, <2>2, <2>3 DEF Generate, GoTo, FilesInv, TypeOK, Stages
  <2>6. PairMatches'
    BY Zenon, <1>1 DEF Generate, FilesInv, PairMatches
  <2>7. ReturnedIsStored'
    BY <1>1, <2>4 DEF Generate, FilesInv, ReturnedIsStored
  <2>8. DistinctKeys'
    BY SMTT(20), <2>2, <2>4 DEF FilesInv, TypeOK, DistinctKeys
  <2>9. Staged'
    BY Zenon, <1>1, <2>4 DEF Generate, FilesInv, Staged
  <2> QED
    BY <2>5, <2>6, <2>7, <2>8, <2>9 DEF FilesInv
<1>2. ASSUME NEW p \in Procs, OpenPub(p) PROVE FilesInv'
  <2>1. CASE ~Exists(pub[job[p].name]) /\ SetPub(p, File(job[p].key, "partial")) /\ GoTo(p, "writePub")
    <3>1. ~Exists(priv[job[p].name])
      <4>1. CASE Exists(priv[job[p].name])
        <5>1. pub[job[p].name] = File(priv[job[p].name].key, "whole")
          BY <1>0, <4>1 DEF FilesInv, PairMatches
        <5>2. priv[job[p].name].key \in 0 .. MaxKeys
          BY <1>0 DEF Files
        <5> QED
          BY <2>1, <4>1, <5>1, <5>2, FileBuilt DEF Exists
      <4> QED
        BY Zenon, <4>1
    <3>2. File(job[p].key, "partial") \in Files
      BY <1>0, FileBuilt
    <3>3. Stage(p, "writePub", File(job[p].key, "partial"), priv[job[p].name])
      BY <3>1 DEF Stage
    <3>4. \A q \in Procs : ~Others(p, q)
      BY <2>1, NoneYet
    <3> HIDE DEF FilesInv, Stage, Others
    <3> QED
      BY Zenon, <1>2, <2>1, <3>1, <3>2, <3>3, <3>4, <1>0, Moves DEF OpenPub, SetPub, GoTo, Stages
  <2>2. CASE GoTo(p, "failed") /\ UNCHANGED pub
    <3>1. Stage(p, "failed", pub[job[p].name], priv[job[p].name])
      BY DEF Stage
    <3>2. Exists(priv[job[p].name]) => pub[job[p].name] = File(priv[job[p].name].key, "whole")
      BY <1>0 DEF FilesInv, PairMatches
    <3> QED
      BY Zenon, <1>2, <2>2, <3>1, <3>2, <1>0, Moves DEF OpenPub, GoTo, Stages, Resting
  <2> QED
    BY <1>2, <2>1, <2>2 DEF OpenPub
<1>3. ASSUME NEW p \in Procs, WritePub(p) PROVE FilesInv'
  <2>1. ~Exists(priv[job[p].name])
    BY <1>3 DEF WritePub, FilesInv, Staged
  <2>2. \A text \in Extents : File(job[p].key, text) \in Files
    BY Zenon, <1>0, FileBuilt
  <2>3. \A q \in Procs : ~Others(p, q)
    BY <1>3, Alone DEF WritePub, Writing
  <2>4. CASE SetPub(p, File(job[p].key, "whole")) /\ GoTo(p, "openPriv")
    <3>1. Stage(p, "openPriv", File(job[p].key, "whole"), priv[job[p].name])
      BY <2>1 DEF Stage
    <3> QED
      BY Zenon, <1>3, <2>1, <2>2, <2>3, <2>4, <3>1, <1>0, Moves DEF WritePub, SetPub, GoTo, Stages
  <2>5. ASSUME NEW text \in Extents, SetPub(p, File(job[p].key, text)), GoTo(p, "failed") PROVE FilesInv'
    <3>1. Stage(p, "failed", File(job[p].key, text), priv[job[p].name])
      BY Zenon DEF Stage
    <3> QED
      BY Zenon, <1>3, <2>1, <2>2, <2>3, <2>5, <3>1, <1>0, Moves DEF WritePub, SetPub, GoTo, Stages, Resting
  <2> QED
    BY Zenon, <1>3, <2>4, <2>5 DEF WritePub
<1>4. ASSUME NEW p \in Procs, OpenPriv(p) PROVE FilesInv'
  <2>1. pub[job[p].name] = File(job[p].key, "whole")
    BY <1>4 DEF OpenPriv, FilesInv, Staged
  <2>2. CASE SetPriv(p, File(job[p].key, "partial")) /\ GoTo(p, "writePriv")
    <3>1. File(job[p].key, "partial") \in Files /\ File(job[p].key, "partial").key = job[p].key
      BY <1>0, FileBuilt
    <3>2. Stage(p, "writePriv", pub[job[p].name], File(job[p].key, "partial"))
      BY <2>1 DEF Stage
    <3>3. \A q \in Procs : ~Others(p, q)
      BY <1>4, Alone DEF OpenPriv, Writing
    <3> QED
      BY Zenon, <1>4, <2>1, <2>2, <3>1, <3>2, <3>3, <1>0, Moves DEF OpenPriv, SetPriv, GoTo, Stages
  <2>3. CASE GoTo(p, "failed") /\ UNCHANGED priv
    <3>1. Stage(p, "failed", pub[job[p].name], priv[job[p].name])
      BY DEF Stage
    <3>2. Exists(priv[job[p].name]) => pub[job[p].name] = File(priv[job[p].name].key, "whole")
      BY <1>0 DEF FilesInv, PairMatches
    <3> QED
      BY Zenon, <1>4, <2>3, <3>1, <3>2, <1>0, Moves DEF OpenPriv, GoTo, Stages, Resting
  <2> QED
    BY Zenon, <1>4, <2>2, <2>3 DEF OpenPriv
<1>5. ASSUME NEW p \in Procs, WritePriv(p) PROVE FilesInv'
  <2>1. pub[job[p].name] = File(job[p].key, "whole")
    BY <1>5 DEF WritePriv, FilesInv, Staged
  <2>2. \A text \in Extents : File(job[p].key, text) \in Files /\ File(job[p].key, text).key = job[p].key
    BY <1>0, FileBuilt
  <2>3. \A q \in Procs : ~Others(p, q)
    BY <1>5, Alone DEF WritePriv, Writing
  <2>4. CASE SetPriv(p, File(job[p].key, "whole")) /\ GoTo(p, "ok")
    <3>1. Stage(p, "ok", pub[job[p].name], File(job[p].key, "whole"))
      BY <2>1 DEF Stage
    <3> QED
      BY Zenon, <1>5, <2>1, <2>2, <2>3, <2>4, <3>1, <1>0, Moves DEF WritePriv, SetPriv, GoTo, Stages, Resting
  <2>5. ASSUME NEW text \in Extents, SetPriv(p, File(job[p].key, text)), GoTo(p, "failed") PROVE FilesInv'
    <3>1. Stage(p, "failed", pub[job[p].name], File(job[p].key, text))
      BY DEF Stage
    <3> QED
      BY Zenon, <1>5, <2>1, <2>2, <2>3, <2>5, <3>1, <1>0, Moves DEF WritePriv, SetPriv, GoTo, Stages, Resting
  <2> QED
    BY Zenon, <1>5, <2>4, <2>5 DEF WritePriv
<1>6. ASSUME NEW p \in Procs, Crash(p) PROVE FilesInv'
  BY Zenon, <1>6, <1>0, Moves DEF Crash, GoTo, Stages, Resting, Stage, FilesInv, PairMatches
<1>7. ASSUME NEW n \in Names, CleanUp(n) PROVE FilesInv'
  <2>1. NoFile \in Files /\ ~Exists(NoFile)
    BY FileBuilt, KeysAssumption DEF NoFile, Exists
  <2>2. \A q \in Procs : job[q].name = n => stage[q] \notin Stages \cup {"ok"}
    <3> SUFFICES ASSUME NEW q \in Procs, job[q].name = n, stage[q] = "ok" PROVE FALSE
      BY <1>7 DEF CleanUp, Running
    <3>1. pub[n] = File(job[q].key, "whole") /\ priv[n] = File(job[q].key, "whole")
      BY DEF FilesInv, ReturnedIsStored
    <3>2. File(job[q].key, "whole").text = "whole" /\ File(job[q].key, "whole").key # 0
      BY FileBuilt DEF FilesInv, TypeOK, DistinctKeys
    <3> QED
      BY <3>1, <3>2, <1>7 DEF CleanUp, Complete, Exists
  <2>3. \A q \in Procs : stage[q] \in Stages \cup {"ok"} =>
            /\ pub'[job[q].name] = pub[job[q].name]
            /\ priv'[job[q].name] = priv[job[q].name]
    BY <1>7, <2>2 DEF CleanUp, FilesInv, TypeOK
  <2>4. TypeOK'
    BY <1>7, <2>1 DEF CleanUp, FilesInv, TypeOK
  <2>5. PairMatches'
    BY Zenon, <1>7, <2>1 DEF CleanUp, FilesInv, TypeOK, PairMatches
  <2>6. ReturnedIsStored'
    BY <1>7, <2>3 DEF CleanUp, FilesInv, ReturnedIsStored
  <2>7. DistinctKeys'
    BY Zenon, <1>7 DEF CleanUp, FilesInv, DistinctKeys
  <2>8. Staged'
    BY Zenon, <1>7, <2>3 DEF CleanUp, FilesInv, Staged, Stages
  <2> QED
    BY <2>4, <2>5, <2>6, <2>7, <2>8 DEF FilesInv
<1>8. CASE UNCHANGED filesVars
  BY <1>8 DEF filesVars, FilesInv, TypeOK, PairMatches, ReturnedIsStored, DistinctKeys, Staged
<1> QED
  BY <1>1, <1>2, <1>3, <1>4, <1>5, <1>6, <1>7, <1>8 DEF FilesNext, Step

(* For any number of processes: the two files of a pair belong together,   *)
(* and a command that reported success has left its own pair (generate).   *)
THEOREM KeyPairsMatch == FilesSpec => [](PairMatches /\ ReturnedIsStored)
<1>1. FilesInv => PairMatches /\ ReturnedIsStored
  BY DEF FilesInv
<1> QED
  BY <1>1, FilesInvInit, FilesInvNext, PTL DEF FilesSpec

Kept(n) ==
    /\ Exists(priv[n]) => priv'[n].key \in {0, priv[n].key}
    /\ Complete(n) => pub'[n] = pub[n] /\ priv'[n] = priv[n]

(* A step that leaves both files of n alone keeps them.                    *)
LEMMA SameKept ==
    ASSUME NEW n \in Names, pub'[n] = pub[n], priv'[n] = priv[n]
    PROVE  Kept(n)
  BY Zenon DEF Kept

(* A step of a process that has created its public file is on a pair that  *)
(* is not complete, and writes the key that is there.                      *)
LEMMA StepKept ==
    ASSUME FilesInv, NEW p \in Procs, Step(p), NEW n \in Names
    PROVE  Kept(n)
<1>1. job[p].key \in 0 .. MaxKeys /\ job[p].name \in Names
  BY DEF FilesInv, TypeOK
<1>2. CASE n # job[p].name
  <2>1. pub'[n] = pub[n] /\ priv'[n] = priv[n]
    BY <1>2 DEF Step, Generate, OpenPub, WritePub, OpenPriv, WritePriv, Crash, SetPub, SetPriv,
       FilesInv, TypeOK
  <2> QED
    BY Zenon, <2>1, SameKept
<1>3. CASE n = job[p].name /\ ~Exists(priv[n])
  BY Zenon, <1>3 DEF Kept, Complete
<1>4. CASE n = job[p].name /\ Exists(priv[n]) /\ WritePriv(p)
  <2>1. priv[n] = File(job[p].key, "partial")
    BY <1>4 DEF WritePriv, FilesInv, Staged
  <2>2. ~Complete(n)
    BY <1>1, <2>1, FileBuilt DEF Complete
  <2>3. PICK text \in Extents : priv'[n] = File(job[p].key, text)
    BY Zenon, <1>4 DEF WritePriv, SetPriv, FilesInv, TypeOK
  <2>4. priv'[n].key = priv[n].key
    BY <1>1, <2>1, <2>3, FileBuilt
  <2> QED
    BY Zenon, <2>2, <2>4 DEF Kept
<1>5. CASE n = job[p].name /\ Exists(priv[n]) /\ ~WritePriv(p)
  <2>1. pub[n] = File(priv[n].key, "whole") /\ priv[n].key \in 0 .. MaxKeys
    BY <1>5 DEF FilesInv, PairMatches, TypeOK, Files
  <2>2. Exists(pub[n])
    BY ZenonT(30), <1>5, <2>1, FileBuilt DEF Exists
  <2>3. ~WritePub(p)
    BY <1>5 DEF WritePub, FilesInv, Staged
  <2>4. pub'[n] = pub[n] /\ priv'[n] = priv[n]
    BY Zenon, <1>5, <2>2, <2>3 DEF Step, Generate, OpenPub, OpenPriv, Crash
  <2> QED
    BY <2>4, SameKept
<1> QED
  BY <1>2, <1>3, <1>4, <1>5

(* A private key file never comes to hold another key, and a complete pair *)
(* is never touched again, for any number of processes (generate).         *)
THEOREM KeyFilesKept == FilesSpec => NeverOverwritten
<1>1. ASSUME FilesInv, [FilesNext]_filesVars, NEW n \in Names PROVE Kept(n)
  <2>1. CASE \E p \in Procs : Step(p)
    BY <1>1, <2>1, StepKept
  <2>2. ASSUME NEW m \in Names, CleanUp(m) PROVE Kept(n)
    <3>1. CASE m = n
      <4>1. priv'[n] = NoFile /\ NoFile.key = 0
        BY <1>1, <2>2, <3>1, FileBuilt, KeysAssumption DEF CleanUp, FilesInv, TypeOK, NoFile
      <4> QED
        BY <2>2, <3>1, <4>1 DEF CleanUp, Kept
    <3>2. CASE m # n
      <4>1. pub'[n] = pub[n] /\ priv'[n] = priv[n]
        BY <2>2, <3>2 DEF CleanUp
      <4> QED
        BY <4>1, SameKept
    <3> QED
      BY <3>1, <3>2
  <2>3. CASE UNCHANGED filesVars
    BY <2>3, SameKept DEF filesVars
  <2> QED
    BY <1>1, <2>1, <2>2, <2>3 DEF FilesNext
<1>2. FilesInv /\ [FilesNext]_filesVars => [\A n \in Names : Kept(n)]_filesVars
  BY Zenon, <1>1
<1>3. (\A n \in Names : Kept(n)) <=> (\A n \in Names :
          /\ Exists(priv[n]) => priv'[n].key \in {0, priv[n].key}
          /\ Complete(n) => pub'[n] = pub[n] /\ priv'[n] = priv[n])
  BY DEF Kept
<1> QED
  BY <1>2, <1>3, FilesInvInit, FilesInvNext, PTL DEF FilesSpec, NeverOverwritten

HIDE DEF Extents

(***************************************************************************)
(* AES key wrap, for every block cipher and every number of blocks:        *)
(* KeyUnwrap inverts KeyWrap, and accepts nothing but its outputs.         *)
(***************************************************************************)
\* One wrapping round on blocks q with a in the first half, as a pair.
Forward(j, x, q) ==
    LET i == (j % Len(q)) + 1
        b == Enc[<<x, q[i]>>]
    IN  <<Xor[j + 1][b[1]], [q EXCEPT ![i] = b[2]]>>

\* One unwrapping round, for the same t.
Backward(j, x, q) ==
    LET i == (j % Len(q)) + 1
        b == Dec[<<Xor[j + 1][x], q[i]>>]
    IN  <<b[1], [q EXCEPT ![i] = b[2]]>>

States(n) == Half \X {q \in Seq(Half) : Len(q) = n}

\* t % n selects one of the n blocks.
LEMMA ModRange == \A j \in Nat, n \in Nat : n > 0 => (j % n) + 1 \in 1..n
  OBVIOUS

\* The round counter stays among those that xor takes.
LEMMA Counter ==
    ASSUME NEW n \in 0..MaxBlocks, NEW j \in 0..(6 * n - 1)
    PROVE  j + 1 \in 1..(6 * MaxBlocks) /\ n > 0 /\ (j % n) + 1 \in 1..n
<1>1. n \in Nat /\ n <= MaxBlocks /\ MaxBlocks \in Nat /\ j \in Nat /\ j < 6 * n
  BY SizeAssumption
<1>2. n > 0 /\ j + 1 \in 1..(6 * MaxBlocks)
  BY <1>1
<1> QED
  BY <1>1, <1>2, ModRange

\* Rounds keep the number of blocks, and the two kinds of rounds undo each other.
LEMMA RoundsInvert ==
    ASSUME NEW n \in 0..MaxBlocks, NEW j \in 0..(6 * n - 1),
           NEW x \in Half, NEW q \in Seq(Half), Len(q) = n
    PROVE  /\ Forward(j, x, q) \in States(n) /\ Backward(j, x, q) \in States(n)
           /\ Backward(j, Forward(j, x, q)[1], Forward(j, x, q)[2]) = <<x, q>>
           /\ Forward(j, Backward(j, x, q)[1], Backward(j, x, q)[2]) = <<x, q>>
<1> DEFINE i == (j % n) + 1
           t == j + 1
<1>0. t \in 1..(6 * MaxBlocks) /\ i \in 1..n
  BY Zenon, Counter
<1>q. q[i] \in Half
  BY <1>0, ElementOfSeq
<1>s. ASSUME NEW h \in Half
      PROVE  LET p == [q EXCEPT ![i] = h]
             IN  p \in Seq(Half) /\ Len(p) = n /\ p[i] = h /\ [p EXCEPT ![i] = q[i]] = q
  <2> DEFINE p == [q EXCEPT ![i] = h]
  <2>1. p \in Seq(Half) /\ Len(p) = n /\ \A m \in 1..n : p[m] = IF m = i THEN h ELSE q[m]
    BY <1>0, ExceptSeq
  <2>3. p[i] = h
    BY <1>0, <2>1
  <2> HIDE DEF p
  <2> DEFINE u == [p EXCEPT ![i] = q[i]]
  <2>2. u \in Seq(Half) /\ Len(u) = n /\ \A m \in 1..n : u[m] = IF m = i THEN q[i] ELSE p[m]
    BY <1>0, <1>q, <2>1, ExceptSeq
  <2> HIDE DEF u
  <2>4. u = q
    BY Zenon, <2>1, <2>2, SeqEqual
  <2> QED
    BY <2>1, <2>3, <2>4 DEF p, u
<1> HIDE DEF i, t
<1>1. ASSUME NEW b \in Half \X Half PROVE b = <<b[1], b[2]>> /\ b[1] \in Half /\ b[2] \in Half
  OBVIOUS
<1>2. /\ Forward(j, x, q) \in States(n)
      /\ Backward(j, Forward(j, x, q)[1], Forward(j, x, q)[2]) = <<x, q>>
  <2> DEFINE b == Enc[<<x, q[i]>>]
             y == Xor[t][b[1]]
             p == [q EXCEPT ![i] = b[2]]
  <2>1. b \in Half \X Half /\ Dec[b] = <<x, q[i]>>
    BY Zenon, <1>q, CipherAssumption
  <2>2. Forward(j, x, q) = <<y, p>>
    BY Zenon DEF Forward, i, t
  <2> HIDE DEF b
  <2>3. y \in Half /\ Xor[t][y] = b[1]
    BY <1>0, <1>1, <2>1, CipherAssumption
  <2>4. p \in Seq(Half) /\ Len(p) = n /\ p[i] = b[2] /\ [p EXCEPT ![i] = q[i]] = q
    BY <1>1, <1>s, <2>1
  <2> HIDE DEF y, p
  <2>5. Backward(j, y, p) = <<Dec[<<Xor[t][y], p[i]>>][1], [p EXCEPT ![i] = Dec[<<Xor[t][y], p[i]>>][2]]>>
    BY <2>4 DEF Backward, i, t
  <2>6. Dec[<<Xor[t][y], p[i]>>] = <<x, q[i]>>
    BY Zenon, <1>1, <2>1, <2>3, <2>4
  <2>7. Backward(j, y, p) = <<x, q>>
    BY <2>4, <2>5, <2>6
  <2>8. <<y, p>> \in States(n)
    BY <2>3, <2>4 DEF States
  <2> QED
    BY <2>2, <2>7, <2>8
<1>3. /\ Backward(j, x, q) \in States(n)
      /\ Forward(j, Backward(j, x, q)[1], Backward(j, x, q)[2]) = <<x, q>>
  <2> DEFINE z == Xor[t][x]
             b == Dec[<<z, q[i]>>]
             p == [q EXCEPT ![i] = b[2]]
  <2>0. z \in Half /\ Xor[t][z] = x
    BY Zenon, <1>0, CipherAssumption
  <2>1. b \in Half \X Half /\ Enc[b] = <<z, q[i]>>
    BY Zenon, <1>q, <2>0, CipherAssumption
  <2>2. Backward(j, x, q) = <<b[1], p>>
    BY DEF Backward, i, t
  <2> HIDE DEF z, b
  <2>4. p \in Seq(Half) /\ Len(p) = n /\ p[i] = b[2] /\ [p EXCEPT ![i] = q[i]] = q
    BY <1>1, <1>s, <2>1
  <2> HIDE DEF p
  <2>5. Forward(j, b[1], p) = <<Xor[t][Enc[<<b[1], p[i]>>][1]], [p EXCEPT ![i] = Enc[<<b[1], p[i]>>][2]]>>
    BY <2>4 DEF Forward, i, t
  <2>6. Enc[<<b[1], p[i]>>] = <<z, q[i]>>
    BY Zenon, <1>1, <2>1, <2>4
  <2>7. Forward(j, b[1], p) = <<x, q>>
    BY <2>0, <2>4, <2>5, <2>6
  <2>8. <<b[1], p>> \in States(n)
    BY <1>1, <2>1, <2>4 DEF States
  <2> QED
    BY <2>2, <2>7, <2>8
<1> QED
  BY <1>2, <1>3

\* The output of KeyWrap taken apart: its first half and the blocks after it.
LEMMA Prepend ==
    ASSUME NEW h \in Half, NEW q \in Seq(Half)
    PROVE  LET s == <<h>> \o q
           IN  s \in Seq(Half) /\ Len(s) = Len(q) + 1 /\ s[1] = h /\ Tail(s) = q
<1> DEFINE s == <<h>> \o q
<1>1. <<h>> \in Seq(Half) /\ Len(<<h>>) = 1 /\ <<h>>[1] = h
  OBVIOUS
<1>2. s \in Seq(Half) /\ Len(s) = 1 + Len(q) /\ \A i \in 1..(1 + Len(q)) : s[i] = IF i <= 1 THEN h ELSE q[i - 1]
  BY <1>1, ConcatProperties
<1>3. Len(q) \in Nat
  BY LenProperties
<1> HIDE DEF s
<1>4. s # <<>> /\ s[1] = h
  BY <1>2, <1>3, EmptySeq
<1>5. Tail(s) \in Seq(Half) /\ Len(Tail(s)) = Len(q) /\ \A i \in 1..Len(q) : Tail(s)[i] = s[i + 1]
  BY <1>2, <1>3, <1>4, HeadTailProperties
<1>6. \A i \in 1..Len(q) : Tail(s)[i] = q[i]
  BY <1>2, <1>3, <1>5
<1>7. Tail(s) = q
  BY <1>5, <1>6, SeqEqual
<1> QED
  BY <1>2, <1>3, <1>4, <1>7 DEF s

\* The input of KeyUnwrap put together again from its first half and its blocks.
LEMMA Split ==
    ASSUME NEW s \in Seq(Half), s # <<>>
    PROVE  s[1] \in Half /\ Tail(s) \in Seq(Half) /\ Len(Tail(s)) = Len(s) - 1
           /\ Len(s) \in Nat \ {0} /\ <<s[1]>> \o Tail(s) = s
<1>1. Len(s) \in Nat \ {0} /\ s[1] \in Half
  BY EmptySeq, ElementOfSeq
<1>2. Tail(s) \in Seq(Half) /\ Len(Tail(s)) = Len(s) - 1 /\ \A i \in 1..Len(Tail(s)) : Tail(s)[i] = s[i + 1]
  BY HeadTailProperties
<1> DEFINE u == <<s[1]>> \o Tail(s)
<1>3. <<s[1]>> \in Seq(Half) /\ Len(<<s[1]>>) = 1 /\ <<s[1]>>[1] = s[1]
  BY <1>1
<1>4. /\ u \in Seq(Half) /\ Len(u) = 1 + Len(Tail(s))
      /\ \A i \in 1..(1 + Len(Tail(s))) : u[i] = IF i <= 1 THEN s[1] ELSE Tail(s)[i - 1]
  BY <1>2, <1>3, ConcatProperties
<1> HIDE DEF u
<1>5. Len(u) = Len(s) /\ \A i \in 1..Len(u) : u[i] = s[i]
  BY <1>1, <1>2, <1>4
<1>6. u = s
  BY <1>4, <1>5, SeqEqual
<1> QED
  BY <1>1, <1>2, <1>6 DEF u

(***************************************************************************)
(* The inductive invariant.  The first call leaves a path of states behind *)
(* it that is linked by wrapping rounds, whichever call it was, and the    *)
(* second call walks the same path in the other direction.                 *)
(***************************************************************************)
Going == pc = "rounds" \/ (pc = "returned" /\ out # <<>>)
WrapFirst == (run = 1 /\ op = "wrap") \/ (run = 2 /\ op = "unwrap")
Lo == IF run = 1 /\ op = "unwrap" THEN k ELSE 0
Hi == IF run = 1 /\ op = "wrap" THEN k ELSE 6 * Len(r)

PathOK(p, lo, hi, n) ==
    /\ p \in [lo..hi -> States(n)]
    /\ \A j \in lo..(hi - 1) : p[j + 1] = Forward(j, p[j][1], p[j][2])

PathInv ==
    /\ PathOK(path, Lo, Hi, Len(r))
    /\ path[k] = <<a, r>>
    /\ WrapFirst => path[0] = <<defaultIV, input>>
    /\ ~WrapFirst => input # <<>> /\ path[6 * Len(r)] = <<input[1], Tail(input)>>
    /\ run = 2 => path[0][1] = defaultIV

ReturnInv ==
    /\ out # <<>> /\ op = "wrap" => k = 6 * Len(r) /\ out = <<(<<a>> \o r)>>
    /\ out # <<>> /\ op = "unwrap" => k = 0 /\ a = defaultIV /\ out = <<r>> /\ Len(r) > 0
    /\ out = <<>> => run = 1 \/ (op = "unwrap" /\ input = <<>>)

WrapInv ==
    /\ WrapTypeOK
    /\ Going => PathInv
    /\ pc = "returned" => ReturnInv

\* Before the first call there is no path.
LEMMA WrapInvInit == WrapInit => WrapInv
<1> SUFFICES ASSUME WrapInit PROVE WrapInv
  OBVIOUS
<1>1. <<>> \in Seq(Half) /\ Len(<<>>) = 0 /\ defaultIV \in Half /\ MaxBlocks \in Nat
  BY EmptySeq, CipherAssumption, SizeAssumption
<1>2. WrapTypeOK
  BY <1>1 DEF WrapInit, WrapTypeOK
<1> QED
  BY <1>2 DEF WrapInit, WrapInv, Going

\* A round of KeyWrap is one link of the path forward.
LEMMA WrapRoundInv == ASSUME WrapInv, WrapRound PROVE WrapInv'
<1> DEFINE n == Len(r)
<1>t. /\ n \in Nat /\ n <= MaxBlocks /\ MaxBlocks \in Nat /\ n \in 0..MaxBlocks
      /\ a \in Half /\ r \in Seq(Half) /\ k \in 0..(6 * n) /\ PathInv
  BY SizeAssumption, LenProperties DEF WrapInv, WrapTypeOK, WrapRound, Going
<1>k. /\ pc = "rounds" /\ op = "wrap" /\ k < 6 * n /\ k' = k + 1 /\ Record
      /\ UNCHANGED <<pc, op, run, input, out>>
  BY DEF WrapRound
<1>j. k \in Nat /\ k \in 0..(6 * n - 1) /\ k + 1 \in 0..(6 * n) /\ 6 * n \in Nat
  BY <1>t, <1>k
<1>f. Forward(k, a, r) = <<a', r'>>
  BY DEF WrapRound, Forward, Slot
<1>s. <<a', r'>> \in States(n)
  BY Zenon, <1>t, <1>j, <1>f, RoundsInvert
<1>r. a' \in Half /\ r' \in Seq(Half) /\ Len(r') = n
  BY <1>s DEF States
<1> HIDE DEF n
<1>1. WrapTypeOK'
  BY <1>t, <1>k, <1>j, <1>r DEF WrapInv, WrapTypeOK, n
<1>2. CASE run = 1
  <2>1. PathOK(path, 0, k, n) /\ path[k] = <<a, r>> /\ path[0] = <<defaultIV, input>>
    BY <1>t, <1>k, <1>2 DEF PathInv, Lo, Hi, WrapFirst, n
  <2>2. path' = [j \in 0..(k + 1) |-> IF j = k + 1 THEN <<a', r'>> ELSE path[j]]
    <3>1. DOMAIN path = 0..k
      BY <2>1 DEF PathOK
    <3>2. (0..k) \cup {k + 1} = 0..(k + 1)
      BY <1>j
    <3> QED
      BY <1>2, <1>k, <3>1, <3>2 DEF Record
  <2>3. ASSUME NEW j \in 0..(k + 1) PROVE path'[j] \in States(n)
    BY <1>j, <1>s, <2>1, <2>2 DEF PathOK
  <2>4. ASSUME NEW j \in 0..((k + 1) - 1) PROVE path'[j + 1] = Forward(j, path'[j][1], path'[j][2])
    <3>1. CASE j = k
      <4>1. path'[j] = <<a, r>> /\ path'[j + 1] = <<a', r'>>
        BY <1>j, <2>1, <2>2, <3>1
      <4> QED
        BY <1>f, <3>1, <4>1
    <3>2. CASE j # k
      <4>1. j \in 0..(k - 1) /\ path'[j] = path[j] /\ path'[j + 1] = path[j + 1]
        BY <1>j, <2>2, <3>2
      <4> QED
        BY Zenon, <2>1, <4>1 DEF PathOK
    <3> QED
      BY Zenon, <3>1, <3>2
  <2>5. PathOK(path', 0, k + 1, n)
    <3>1. path' \in [0..(k + 1) -> States(n)]
      BY Zenon, <2>2, <2>3
    <3> QED
      BY <3>1, <2>4 DEF PathOK
  <2>6. path'[k + 1] = <<a', r'>> /\ path'[0] = <<defaultIV, input>>
    BY <1>j, <2>1, <2>2
  <2>7. PathInv'
    BY <1>2, <1>k, <1>r, <2>5, <2>6 DEF PathInv, Lo, Hi, WrapFirst
  <2> QED
    BY Zenon, <1>1, <1>k, <2>7 DEF WrapInv
<1>3. CASE run = 2
  <2>1. /\ PathOK(path, 0, 6 * n, n) /\ path[k] = <<a, r>> /\ path[0][1] = defaultIV
        /\ input # <<>> /\ path[6 * n] = <<input[1], Tail(input)>> /\ path' = path
    BY <1>t, <1>k, <1>3 DEF PathInv, Lo, Hi, WrapFirst, Record, n
  <2>2. path[k + 1] = <<a', r'>>
    <3>1. path[k + 1] = Forward(k, path[k][1], path[k][2])
      BY Zenon, <1>j, <2>1 DEF PathOK
    <3> QED
      BY <1>f, <2>1, <3>1
  <2>3. PathInv'
    BY SMTT(20), <1>3, <1>k, <1>r, <2>1, <2>2 DEF PathInv, Lo, Hi, WrapFirst
  <2> QED
    BY <1>1, <1>k, <2>3 DEF WrapInv
<1> QED
  BY Zenon, <1>2, <1>3 DEF WrapInv, WrapTypeOK

\* A round of KeyUnwrap is one link of the path backward.
LEMMA UnwrapRoundInv == ASSUME WrapInv, UnwrapRound PROVE WrapInv'
<1> DEFINE n == Len(r)
           t == k - 1
<1>t. /\ n \in Nat /\ n <= MaxBlocks /\ MaxBlocks \in Nat /\ n \in 0..MaxBlocks
      /\ a \in Half /\ r \in Seq(Half) /\ k \in 0..(6 * n) /\ PathInv
  BY SMTT(20), SizeAssumption, LenProperties DEF WrapInv, WrapTypeOK, UnwrapRound, Going
<1>k. /\ pc = "rounds" /\ op = "unwrap" /\ k > 0 /\ k' = t /\ Record
      /\ UNCHANGED <<pc, op, run, input, out>>
  BY DEF UnwrapRound
<1>j. t \in Nat /\ t \in 0..(6 * n - 1) /\ t \in 0..(6 * n) /\ 6 * n \in Nat /\ t + 1 = k
  BY <1>t, <1>k
<1>b. Backward(t, a, r) = <<a', r'>>
  BY DEF UnwrapRound, Backward, Slot
<1> HIDE DEF n, t
<1>s. <<a', r'>> \in States(n) /\ Forward(t, a', r') = <<a, r>>
  <2>1. /\ Backward(t, a, r) \in States(n)
        /\ Forward(t, Backward(t, a, r)[1], Backward(t, a, r)[2]) = <<a, r>>
    BY <1>t, <1>j, RoundsInvert DEF n
  <2> QED
    BY <1>b, <2>1
<1>r. a' \in Half /\ r' \in Seq(Half) /\ Len(r') = n
  BY Zenon, <1>s DEF States
<1>1. WrapTypeOK'
  BY <1>t, <1>k, <1>j, <1>r DEF WrapInv, WrapTypeOK, n
<1>2. CASE run = 1
  <2>1. /\ PathOK(path, k, 6 * n, n) /\ path[k] = <<a, r>>
        /\ input # <<>> /\ path[6 * n] = <<input[1], Tail(input)>>
    BY <1>t, <1>k, <1>2 DEF PathInv, Lo, Hi, WrapFirst, n
  <2>2. path' = [j \in t..(6 * n) |-> IF j = t THEN <<a', r'>> ELSE path[j]]
    <3>1. DOMAIN path = k..(6 * n)
      BY <2>1 DEF PathOK
    <3>2. (k..(6 * n)) \cup {t} = t..(6 * n)
      BY <1>j
    <3> QED
      BY <1>2, <1>k, <3>1, <3>2 DEF Record
  <2>3. ASSUME NEW j \in t..(6 * n) PROVE path'[j] \in States(n)
    <3>1. CASE j = t
      BY Zenon, <1>s, <2>2, <3>1
    <3>2. CASE j # t
      <4>1. j \in k..(6 * n)
        BY <1>j, <3>2
      <4> QED
        BY <2>1, <2>2, <3>2, <4>1 DEF PathOK
    <3> QED
      BY Zenon, <3>1, <3>2
  <2>4. ASSUME NEW j \in t..(6 * n - 1) PROVE path'[j + 1] = Forward(j, path'[j][1], path'[j][2])
    <3>1. CASE j = t
      <4>1. path'[j] = <<a', r'>> /\ path'[j + 1] = <<a, r>>
        BY <1>j, <2>1, <2>2, <3>1
      <4> QED
        BY <1>s, <3>1, <4>1
    <3>2. CASE j # t
      <4>1. j \in k..(6 * n - 1) /\ path'[j] = path[j] /\ path'[j + 1] = path[j + 1]
        BY <1>j, <2>2, <3>2
      <4> QED
        BY Zenon, <2>1, <4>1 DEF PathOK
    <3> QED
      BY Zenon, <3>1, <3>2
  <2>5. PathOK(path', t, 6 * n, n)
    <3>1. path' \in [t..(6 * n) -> States(n)]
      BY Zenon, <2>2, <2>3
    <3> QED
      BY <3>1, <2>4 DEF PathOK
  <2>6. path'[t] = <<a', r'>> /\ path'[6 * n] = <<input[1], Tail(input)>>
    BY SMTT(20), <1>j, <2>1, <2>2
  <2>7. PathInv'
    BY <1>2, <1>k, <1>r, <2>1, <2>5, <2>6 DEF PathInv, Lo, Hi, WrapFirst
  <2> QED
    BY Zenon, <1>1, <1>k, <2>7 DEF WrapInv
<1>3. CASE run = 2
  <2>1. /\ PathOK(path, 0, 6 * n, n) /\ path[k] = <<a, r>> /\ path[0][1] = defaultIV
        /\ path[0] = <<defaultIV, input>> /\ path' = path
    BY <1>t, <1>k, <1>3 DEF PathInv, Lo, Hi, WrapFirst, Record, n
  <2>2. path[t] = <<a', r'>>
    <3>1. path[t] \in States(n) /\ Forward(t, path[t][1], path[t][2]) = <<a, r>>
      BY Zenon, <1>j, <2>1 DEF PathOK
    <3>2. PICK x \in Half, q \in Seq(Half) : path[t] = <<x, q>> /\ Len(q) = n
      BY <3>1 DEF States
    <3>3. Backward(t, a, r) = <<x, q>>
      BY <1>t, <1>j, <3>1, <3>2, RoundsInvert
    <3> QED
      BY <1>b, <3>2, <3>3
  <2>3. PathInv'
    BY <1>3, <1>k, <1>r, <2>1, <2>2 DEF PathInv, Lo, Hi, WrapFirst
  <2> QED
    BY <1>1, <1>k, <2>3 DEF WrapInv
<1> QED
  BY Zenon, <1>2, <1>3 DEF WrapInv, WrapTypeOK

\* The two returns read their output off the end of the path.
LEMMA ReturnInvStep == ASSUME WrapInv, WrapReturn \/ UnwrapReturn PROVE WrapInv'
<1>t. WrapTypeOK /\ PathInv /\ pc = "rounds" /\ pc' = "returned"
      /\ UNCHANGED <<op, run, input, a, r, k, path>>
  BY Zenon DEF WrapInv, Going, WrapReturn, UnwrapReturn, Finish
<1>p. PathInv'
  BY Zenon, <1>t DEF PathInv, PathOK, Lo, Hi, WrapFirst
<1>1. CASE WrapReturn
  <2>1. op = "wrap" /\ k = 6 * Len(r) /\ out' = <<(<<a>> \o r)>> /\ (<<a>> \o r) \in Seq(Half)
    BY <1>1, <1>t, Prepend DEF WrapTypeOK, WrapReturn, Finish
  <2>2. out' # <<>> /\ Len(out') = 1 /\ out'[1] \in Seq(Half)
    BY Zenon, <2>1
  <2>3. WrapTypeOK'
    BY <1>t, <2>2 DEF WrapTypeOK
  <2> QED
    BY Zenon, <1>t, <1>p, <2>1, <2>2, <2>3 DEF WrapInv, ReturnInv
<1>2. CASE UnwrapReturn
  <2>1. op = "unwrap" /\ k = 0 /\ Len(r) > 0 /\ out' = IF a = defaultIV THEN <<r>> ELSE <<>>
    BY <1>2, <1>t DEF WrapTypeOK, UnwrapReturn, Finish
  <2>2. <<r>> # <<>> /\ Len(<<r>>) = 1 /\ <<r>>[1] = r
    OBVIOUS
  <2>3. WrapTypeOK'
    BY Zenon, <1>t, <2>1, <2>2 DEF WrapTypeOK
  <2>4. a # defaultIV => run = 1
    BY <1>t, <2>1 DEF PathInv, WrapFirst, WrapTypeOK
  <2>5. ReturnInv'
    BY Zenon, <1>t, <2>1, <2>2, <2>4 DEF ReturnInv
  <2> QED
    BY Zenon, <1>p, <2>3, <2>5 DEF WrapInv
<1> QED
  BY <1>1, <1>2

\* The first call starts the path at its input.
LEMMA CallInv ==
    ASSUME WrapInv, NEW o \in {"wrap", "unwrap"}, NEW x \in Bytes, NEW extra \in Extra, Call(o, x, extra)
    PROVE  WrapInv'
<1>x. x \in Seq(Half) /\ Len(x) \in Nat /\ Len(x) <= MaxBlocks
  <2>1. PICK n \in 0..MaxBlocks : x \in [1..n -> Half]
    BY DEF Bytes
  <2>2. n \in Nat /\ n <= MaxBlocks
    BY SizeAssumption
  <2>3. x \in Seq(Half)
    BY <2>1, <2>2, FunctionIsSeq
  <2>4. Len(x) = n
    BY <2>1, <2>2, <2>3, LenProperties
  <2> QED
    BY Zenon, <2>2, <2>3, <2>4
<1>t. WrapTypeOK /\ run' = 1 /\ input' = x /\ pc = "idle"
  BY Zenon DEF Call, WrapInv
<1>e. <<>> = <<>> /\ defaultIV \in Half
  BY Zenon, CipherAssumption
<1>1. CASE Refuse /\ op' \in {"wrap", "unwrap"}
  <2>1. WrapTypeOK'
    BY Zenon, <1>1, <1>x, <1>t DEF Refuse, WrapTypeOK
  <2> QED
    BY Zenon, <1>1, <1>t, <2>1 DEF Refuse, WrapInv, Going, ReturnInv
<1>2. CASE op' = "wrap" /\ Enter(defaultIV, x, 0)
  <2>1. /\ pc' = "rounds" /\ out' = <<>> /\ a' = defaultIV /\ r' = x /\ k' = 0
        /\ path' = [j \in {0} |-> <<defaultIV, x>>]
    BY Zenon, <1>2, <1>t DEF Enter
  <2>2. WrapTypeOK'
    BY <1>2, <1>e, <1>x, <1>t, <2>1 DEF WrapTypeOK
  <2>3. PathOK(path', 0, 0, Len(x)) /\ path'[0] = <<defaultIV, x>>
    BY <1>e, <1>x, <2>1 DEF PathOK, States
  <2>4. PathInv'
    BY Zenon, <1>2, <1>t, <2>1, <2>3 DEF PathInv, Lo, Hi, WrapFirst
  <2> QED
    BY <2>1, <2>2, <2>4 DEF WrapInv
<1>3. CASE op' = "unwrap" /\ Len(x) - 1 > 0 /\ Enter(x[1], Tail(x), 6 * (Len(x) - 1))
  <2> DEFINE n == Len(x) - 1
  <2>0. n \in Nat /\ n > 0 /\ n <= MaxBlocks /\ 6 * n \in Nat /\ x # <<>>
    BY <1>3, <1>x, EmptySeq, SizeAssumption
  <2>1. x[1] \in Half /\ Tail(x) \in Seq(Half) /\ Len(Tail(x)) = n
    BY Zenon, <1>x, <2>0, Split
  <2>2. /\ pc' = "rounds" /\ out' = <<>> /\ a' = x[1] /\ r' = Tail(x) /\ k' = 6 * n
        /\ path' = [j \in {6 * n} |-> <<x[1], Tail(x)>>]
    BY Zenon, <1>3, <1>t DEF Enter
  <2> HIDE DEF n
  <2>3. WrapTypeOK'
    BY <1>3, <1>x, <1>t, <2>0, <2>1, <2>2 DEF WrapTypeOK
  <2>4. PathOK(path', 6 * n, 6 * n, n) /\ path'[6 * n] = <<x[1], Tail(x)>>
    <3>1. (6 * n)..(6 * n) = {6 * n} /\ (6 * n)..(6 * n - 1) = {}
      BY <2>0
    <3>2. <<x[1], Tail(x)>> \in States(n)
      BY Zenon, <2>1 DEF States
    <3> QED
      BY Zenon, <2>2, <3>1, <3>2 DEF PathOK
  <2>5. Lo' = 6 * n /\ Hi' = 6 * n /\ Len(r') = n /\ ~WrapFirst'
    BY SMTT(20), <1>3, <1>t, <2>1, <2>2 DEF Lo, Hi, WrapFirst
  <2>6. PathInv'
    <3>1. PathOK(path', Lo', Hi', Len(r')) /\ path'[k'] = <<a', r'>>
      BY Zenon, <2>2, <2>4, <2>5
    <3>2. input' # <<>> /\ path'[6 * Len(r')] = <<input'[1], Tail(input')>>
      BY Zenon, <1>t, <2>0, <2>4, <2>5
    <3> QED
      BY <1>t, <2>5, <3>1, <3>2 DEF PathInv
  <2> QED
    BY <2>2, <2>3, <2>6 DEF WrapInv
<1>4. o = "wrap" => op' = "wrap" /\ (Refuse \/ Enter(defaultIV, x, 0))
  BY DEF Call, KeyWrap
<1>5. o # "wrap" => /\ op' = "unwrap"
                    /\ Refuse \/ (Len(x) - 1 > 0 /\ Enter(x[1], Tail(x), 6 * (Len(x) - 1)))
  BY <1>x DEF Call, KeyUnwrap
<1> QED
  BY Zenon, <1>1, <1>2, <1>3, <1>4, <1>5

\* The opposite call starts where the path of the first one ended.
LEMMA CallInverseInv == ASSUME WrapInv, CallInverse PROVE WrapInv'
<1> DEFINE n == Len(r)
<1>t. /\ WrapTypeOK /\ PathInv /\ ReturnInv /\ pc = "returned" /\ run = 1 /\ out # <<>>
      /\ run' = 2 /\ UNCHANGED input
  BY DEF WrapInv, Going, CallInverse
<1>n. n \in Nat /\ n <= MaxBlocks /\ 6 * n \in Nat /\ a \in Half /\ r \in Seq(Half) /\ input \in Seq(Half)
  BY <1>t, LenProperties, SizeAssumption DEF WrapTypeOK
<1>1. CASE op = "wrap"
  <2> DEFINE x == <<a>> \o r
  <2>1. out[1] = x /\ k = 6 * n /\ KeyUnwrap(x, 0)
    <3>1. k = 6 * n /\ out = <<x>>
      BY <1>t, <1>1 DEF ReturnInv
    <3> HIDE DEF x
    <3>2. out[1] = x
      BY Zenon, <3>1
    <3> QED
      BY <1>1, <3>1, <3>2 DEF CallInverse
  <2>2. x \in Seq(Half) /\ Len(x) = n + 1 /\ x[1] = a /\ Tail(x) = r
    BY Zenon, <1>n, Prepend
  <2> HIDE DEF x
  <2>3. PathOK(path, 0, 6 * n, n) /\ path[6 * n] = <<a, r>> /\ path[0] = <<defaultIV, input>>
    BY <1>t, <1>1, <2>1 DEF PathInv, Lo, Hi, WrapFirst
  <2>4. op' = "unwrap" /\ IF n <= 0 THEN Refuse ELSE Enter(a, r, 6 * n)
    <3>1. Len(x) - 1 = n
      BY <1>n, <2>2
    <3> HIDE DEF n
    <3> QED
      BY Zenon, <2>1, <2>2, <3>1 DEF KeyUnwrap
  <2> HIDE DEF n
  <2>5. CASE n <= 0
    <3>1. n = 0 /\ Refuse
      BY <1>n, <2>4, <2>5
    <3>2. input = <<>>
      <4>1. path[0] \in States(0)
        BY <2>3, <3>1 DEF PathOK
      <4>2. Len(input) = 0
        BY <2>3, <4>1 DEF States
      <4> QED
        BY <1>n, <4>2, EmptySeq
    <3>3. WrapTypeOK'
      BY <1>t, <2>4, <3>1 DEF WrapTypeOK, Refuse
    <3> QED
      BY <1>t, <2>4, <3>1, <3>2, <3>3 DEF WrapInv, Refuse, Going, ReturnInv
  <2>6. CASE n > 0
    <3>1. pc' = "rounds" /\ out' = <<>> /\ a' = a /\ r' = r /\ k' = 6 * n /\ path' = path
      BY <1>n, <1>t, <2>4, <2>6 DEF Enter
    <3>2. WrapTypeOK'
      BY SMTT(20), <1>n, <1>t, <2>4, <2>6, <3>1 DEF WrapTypeOK, n
    <3>3. PathInv'
      BY <1>t, <2>3, <2>4, <3>1 DEF PathInv, Lo, Hi, WrapFirst, n
    <3> QED
      BY Zenon, <3>1, <3>2, <3>3 DEF WrapInv
  <2> QED
    BY <1>n, <2>5, <2>6
<1>2. CASE op = "unwrap"
  <2>1. out[1] = r /\ k = 0 /\ a = defaultIV /\ Len(r) > 0 /\ KeyWrap(r, 0)
    BY <1>t, <1>2 DEF ReturnInv, CallInverse
  <2>2. /\ op' = "wrap" /\ pc' = "rounds" /\ out' = <<>> /\ a' = a /\ r' = r /\ k' = 0
        /\ path' = path
    BY SMTT(20), <1>t, <2>1 DEF KeyWrap, Enter
  <2>3. /\ PathOK(path, 0, 6 * n, n) /\ path[0] = <<a, r>>
        /\ input # <<>> /\ path[6 * n] = <<input[1], Tail(input)>>
    BY <1>t, <1>2, <2>1 DEF PathInv, Lo, Hi, WrapFirst
  <2>4. WrapTypeOK'
    BY SMTT(20), <1>n, <1>t, <2>2 DEF WrapTypeOK
  <2>5. PathInv'
    BY <1>t, <2>1, <2>2, <2>3 DEF PathInv, Lo, Hi, WrapFirst
  <2> QED
    BY Zenon, <2>2, <2>4, <2>5 DEF WrapInv
<1> QED
  BY <1>1, <1>2, <1>t DEF WrapTypeOK

\* Every step keeps the invariant.
LEMMA WrapInvStep == WrapInv /\ [WrapNext]_wrapVars => WrapInv'
<1> SUFFICES ASSUME WrapInv, [WrapNext]_wrapVars PROVE WrapInv'
  OBVIOUS
<1>1. CASE UNCHANGED wrapVars
  BY Zenon, <1>1 DEF wrapVars, WrapInv, WrapTypeOK, Going, PathInv, PathOK, Lo, Hi, WrapFirst, ReturnInv
<1> QED
  BY Zenon, <1>1, CallInv, CallInverseInv, WrapRoundInv, UnwrapRoundInv, ReturnInvStep DEF WrapNext

\* While the key is derived nothing is wrapped.
LEMMA WrapSteps == [Next]_vars => [WrapNext]_wrapVars
BY DEF Next, Derive, UseKey, vars

\* No call of KeyWrap or KeyUnwrap runs at first.
LEMMA WrapStarts == Init => WrapInit
BY DEF Init

\* The variables keep their types, and no round divides by zero blocks.
THEOREM WrapTypes == Spec => []WrapTypeOK
<1>1. WrapInv => WrapTypeOK
  BY DEF WrapInv
<1> QED
  BY <1>1, WrapSteps, WrapStarts, WrapInvInit, WrapInvStep, PTL DEF Spec

\* KeyUnwrap of what KeyWrap returned is the key KeyWrap was given, for every
\* block cipher and every number of blocks.
THEOREM UnwrapInvertsWrapAlways == Spec => []UnwrapInvertsWrap
<1>1. ASSUME WrapInv, Second, op = "unwrap" PROVE out = IF input = <<>> THEN <<>> ELSE <<input>>
  <2>1. WrapTypeOK /\ ReturnInv /\ pc = "returned" /\ run = 2
    BY Zenon, <1>1 DEF WrapInv, Second
  <2>2. CASE out = <<>>
    BY <1>1, <2>1, <2>2 DEF ReturnInv
  <2>3. CASE out # <<>>
    <3>1. k = 0 /\ out = <<r>> /\ Len(r) > 0
      BY Zenon, <1>1, <2>1, <2>3 DEF ReturnInv
    <3>2. <<a, r>> = <<defaultIV, input>>
      BY Zenon, <1>1, <2>1, <2>3, <3>1 DEF WrapInv, Going, PathInv, WrapFirst
    <3>3. input = r /\ r # <<>>
      BY <2>1, <3>1, <3>2, EmptySeq DEF WrapTypeOK
    <3> QED
      BY <3>1, <3>3
  <2> QED
    BY <2>2, <2>3
<1>2. WrapInv => UnwrapInvertsWrap
  BY <1>1 DEF UnwrapInvertsWrap
<1> QED
  BY <1>2, WrapSteps, WrapStarts, WrapInvInit, WrapInvStep, PTL DEF Spec

\* The key that KeyUnwrap returns for an arbitrary input wraps to that input.
THEOREM AcceptsOnlyWrappedAlways == Spec => []AcceptsOnlyWrapped
<1>1. ASSUME WrapInv, Second, op = "wrap" PROVE out = <<input>>
  <2>1. WrapTypeOK /\ ReturnInv /\ pc = "returned" /\ run = 2
    BY <1>1 DEF WrapInv, Second
  <2>2. out # <<>> /\ k = 6 * Len(r) /\ out = <<(<<a>> \o r)>>
    BY SMTT(20), <1>1, <2>1 DEF ReturnInv
  <2>3. input # <<>> /\ <<a, r>> = <<input[1], Tail(input)>>
    BY <1>1, <2>1, <2>2 DEF WrapInv, Going, PathInv, WrapFirst
  <2>4. <<a>> \o r = input
    BY <2>1, <2>3, Split DEF WrapTypeOK
  <2> QED
    BY <2>2, <2>4
<1>2. WrapInv => AcceptsOnlyWrapped
  BY <1>1 DEF AcceptsOnlyWrapped
<1> QED
  BY <1>2, WrapSteps, WrapStarts, WrapInvInit, WrapInvStep, PTL DEF Spec

(***************************************************************************)
(* The Concat KDF: Read delivers the stream of hash blocks, for every      *)
(* block size, counter width and splitting of the reads.                   *)
(***************************************************************************)
(***************************************************************************)
(* Arithmetic.                                                             *)
(***************************************************************************)
\* A product with a larger factor is larger by at least the other factor.
LEMMA ProductStep ==
    ASSUME NEW m \in Nat \ {0}, NEW p \in Int, NEW q \in Int, p < q
    PROVE  m * p + m <= m * q
<1>1. PICK d \in Nat : q = p + 1 + d
  <2>1. q - p - 1 \in Nat /\ q = p + 1 + (q - p - 1)
    OBVIOUS
  <2> QED BY <2>1
<1>2. m * q = m * p + m + m * d
  BY <1>1
<1>3. m * d \in Nat /\ m * p \in Int
  OBVIOUS
<1> QED BY <1>2, <1>3

\* Quotient and remainder exist.
LEMMA Euclid ==
    ASSUME NEW m \in Nat \ {0}, NEW n \in Nat
    PROVE  n \div m \in Nat /\ n % m \in 0..(m - 1) /\ n = m * (n \div m) + (n % m)
OBVIOUS

\* Quotient and remainder are unique.
LEMMA Division ==
    ASSUME NEW m \in Nat \ {0}, NEW q \in Nat, NEW x \in 0..(m - 1)
    PROVE  (m * q + x) \div m = q /\ (m * q + x) % m = x
<1> DEFINE n == m * q + x
           d == n \div m
           y == n % m
<1>1. n \in Nat /\ m * q \in Nat
  OBVIOUS
<1>2. d \in Nat /\ y \in 0..(m - 1) /\ n = m * d + y
  <2> HIDE DEF n
  <2> QED BY Zenon, <1>1, Euclid
<1> HIDE DEF n, d, y
<1>3. n = m * q + x
  BY DEF n
<1>4. m * d \in Int
  BY <1>2
<1>5. ~(d < q)
  <2> SUFFICES ASSUME d < q PROVE FALSE OBVIOUS
  <2>1. m * d + m <= m * q
    BY ProductStep, <1>2
  <2> QED BY <2>1, <1>1, <1>2, <1>3, <1>4
<1>6. ~(q < d)
  <2> SUFFICES ASSUME q < d PROVE FALSE OBVIOUS
  <2>1. m * q + m <= m * d
    BY ProductStep, <1>2
  <2> QED BY <2>1, <1>1, <1>2, <1>3, <1>4
<1>7. d = q
  BY <1>2, <1>5, <1>6
<1>8. y = x
  BY <1>1, <1>2, <1>3, <1>7
<1> QED BY <1>7, <1>8 DEF n, d, y

\* The counter is the number of blocks, plus one, to its width.
LEMMA BlockCounter ==
    ASSUME NEW m \in Nat \ {0}, NEW x \in Nat
    PROVE  ((x % m) + 1) % m = (x + 1) % m
<1> DEFINE q == x \div m
           y == x % m
<1>1. q \in Nat /\ y \in 0..(m - 1) /\ x = m * q + y
  OBVIOUS
<1> HIDE DEF q, y
<1>2. CASE y + 1 < m
  <2>1. x + 1 = m * q + (y + 1) /\ y + 1 \in 0..(m - 1)
    BY <1>1, <1>2
  <2>2. (m * q + (y + 1)) % m = y + 1 
    BY Zenon, <2>1, <1>1, Division
  <2>3. (m * 0 + (y + 1)) % m = y + 1
    BY Zenon, <2>1, <1>1, Division
  <2> QED BY <2>1, <2>2, <2>3, <1>1 DEF y
<1>3. CASE y + 1 = m
  <2>1. x + 1 = m * (q + 1) + 0
    BY <1>1, <1>3
  <2>2. (m * (q + 1) + 0) % m = 0
    BY <1>1, Division
  <2>3. (m * 1 + 0) % m = 0
    BY Division
  <2> QED BY <2>1, <2>2, <2>3, <1>1, <1>3 DEF y
<1> QED BY <1>1, <1>2, <1>3

(***************************************************************************)
(* The invariant: b blocks have been hashed, the cache holds the end of    *)
(* the last one, and filled holds the stream from total on.                   *)
(***************************************************************************)
Pos == IF reader = "fill" THEN total + Len(filled) ELSE total

Place(b) == counter = (b + 1) % Modulus /\ Pos + Len(cache) = Size * b

CacheOK == \A j \in 1..Len(cache) : cache[j] = Stream(Pos + j - 1)

OutOK == reader = "fill" => \A j \in 1..Len(filled) : filled[j] = Stream(total + j - 1)

FillOK ==
    reader = "fill" => total + want <= MaxTotal /\ (Len(filled) < want => cache = <<>>)

KdfInv == KdfTypeOK /\ FillOK /\ CacheOK /\ OutOK /\ \E b \in Nat : Place(b)

\* The b-th block of the stream is the hash with counter b + 1.
LEMMA BlockOfStream ==
    ASSUME NEW b \in Nat, NEW j \in 1..Size
    PROVE  Stream(Size * b + j - 1) = Hash[(b + 1) % Modulus][j]
<1>1. Size \in Nat \ {0} /\ j - 1 \in 0..(Size - 1)
  BY HashAssumption
<1>2. (Size * b + (j - 1)) \div Size = b /\ (Size * b + (j - 1)) % Size = j - 1
  BY <1>1, Division
<1>3. Size * b + j - 1 = Size * b + (j - 1)
  BY Zenon, <1>1
<1>4. Stream(Size * b + (j - 1)) = Hash[(b + 1) % Modulus][(j - 1) + 1]
  BY <1>2 DEF Stream
<1>5. (j - 1) + 1 = j
  OBVIOUS
<1> QED BY <1>3, <1>4, <1>5

\* A hash value is a sequence of Size bytes.
LEMMA HashValue ==
    ASSUME NEW c \in 0..(Modulus - 1)
    PROVE  Hash[c] \in Seq(Byte) /\ Len(Hash[c]) = Size
<1>1. Hash[c] \in [1..Size -> Byte] /\ Size \in Nat
  BY Zenon, HashAssumption
<1> QED BY <1>1

\* What a slice of a sequence holds.
LEMMA Slice ==
    ASSUME NEW S, NEW s \in Seq(S), NEW m \in 1..(Len(s) + 1), NEW n \in (m - 1)..Len(s)
    PROVE  /\ SubSeq(s, m, n) \in Seq(S)
           /\ Len(SubSeq(s, m, n)) = n - m + 1
           /\ \A j \in 1..(n - m + 1) : SubSeq(s, m, n)[j] = s[m + j - 1]
OBVIOUS

\* A new reader has hashed nothing and stands at position 0.
LEMMA KdfInvInit == KdfInit => KdfInv
<1> SUFFICES ASSUME KdfInit PROVE KdfInv OBVIOUS
<1>1. KdfTypeOK /\ FillOK /\ CacheOK /\ OutOK
  BY HashAssumption DEF KdfInit, KdfTypeOK, FillOK, CacheOK, OutOK
<1>2. (Modulus * 0 + 1) % Modulus = 1
  <2>1. Modulus \in Nat \ {0} /\ 0 \in Nat /\ 1 \in 0..(Modulus - 1)
    BY HashAssumption
  <2> QED BY <2>1, Division
<1>3. (0 + 1) % Modulus = 1 /\ Size * 0 = 0
  <2>1. Modulus * 0 + 1 = 0 + 1
    BY HashAssumption
  <2> QED BY <1>2, <2>1, HashAssumption
<1>4. counter = 1 /\ Pos = 0 /\ Len(cache) = 0
  BY DEF KdfInit, Pos
<1>5. Place(0)
  BY <1>3, <1>4 DEF Place
<1> QED BY <1>1, <1>5 DEF KdfInv

\* Taking the start of the cache moves the position, not the end of the cache.
LEMMA KdfReadCache ==
    ASSUME KdfInv, NEW n \in 0..MaxTotal, ReadCache(n)
    PROVE  KdfInv'
<1> DEFINE c == Least(n, Len(cache))
<1>1. n \in Nat /\ Len(cache) \in Nat /\ cache \in Seq(Byte) /\ total \in Nat /\ MaxTotal \in Nat
  BY HashAssumption DEF KdfInv, KdfTypeOK
<1>2. c \in 0..Len(cache) /\ c <= n /\ (c < n => c = Len(cache))
  BY <1>1 DEF Least
<1> HIDE DEF c
<1>3. filled' = SubSeq(cache, 1, c) /\ cache' = SubSeq(cache, c + 1, Len(cache))
  BY Zenon DEF ReadCache, c
<1>4. /\ filled' \in Seq(Byte) /\ Len(filled') = c
      /\ \A j \in 1..c : filled'[j] = cache[j]
  BY <1>1, <1>2, <1>3, Slice
<1>5. /\ cache' \in Seq(Byte) /\ Len(cache') = Len(cache) - c
      /\ \A j \in 1..(Len(cache) - c) : cache'[j] = cache[c + j]
  BY <1>1, <1>2, <1>3, Slice
<1>6. reader = "idle" /\ reader' = "fill" /\ want' = n /\ total' = total /\ counter' = counter /\ buf' = buf
      /\ total + n <= MaxTotal
  BY DEF ReadCache
<1>7. Pos = total /\ Pos' = total + c
  BY Zenon, <1>4, <1>6 DEF Pos
<1>8. KdfTypeOK'
  BY HashAssumption, <1>1, <1>2, <1>4, <1>5, <1>6 DEF KdfInv, KdfTypeOK
<1>9. FillOK'
  <2>1. c < n => cache' = <<>>
    BY <1>2, <1>5
  <2> QED BY Zenon, <2>1, <1>4, <1>6 DEF FillOK
<1>10. CacheOK'
  <2> SUFFICES ASSUME NEW j \in 1..Len(cache') PROVE cache'[j] = Stream(Pos' + j - 1)
    BY Zenon DEF CacheOK, Stream
  <2>l. j \in 1..(Len(cache) - c)
    BY Zenon, <1>5
  <2>1. c + j \in 1..Len(cache) /\ cache'[j] = cache[c + j]
    <3>1. Len(cache) \in Nat /\ c \in 0..Len(cache)
      BY Zenon, <1>1, <1>2
    <3>2. c + j \in 1..Len(cache)
      BY <2>l, <3>1
    <3> QED BY Zenon, <1>5, <2>l, <3>2
  <2>2. cache[c + j] = Stream(Pos + (c + j) - 1)
    BY Zenon, <2>1 DEF KdfInv, CacheOK
  <2>3. Pos + (c + j) - 1 = Pos' + j - 1
    BY <1>1, <1>2, <1>7, <2>1
  <2> QED BY Zenon, <2>1, <2>2, <2>3
<1>11. OutOK'
  <2> SUFFICES ASSUME NEW j \in 1..Len(filled') PROVE filled'[j] = Stream(total' + j - 1)
    BY Zenon DEF OutOK, Stream
  <2>1. j \in 1..Len(cache) /\ filled'[j] = cache[j]
    BY <1>1, <1>2, <1>4
  <2>2. cache[j] = Stream(Pos + j - 1)
    BY <2>1 DEF KdfInv, CacheOK
  <2> QED BY Zenon, <1>6, <1>7, <2>1, <2>2
<1>12. PICK b \in Nat : Place(b)
  BY DEF KdfInv
<1>13. Place(b)'
  <2>1. Pos' + Len(cache') = Pos + Len(cache)
    BY <1>1, <1>2, <1>5, <1>7
  <2> QED BY Zenon, <1>6, <1>12, <2>1 DEF Place
<1> QED BY Zenon, <1>8, <1>9, <1>10, <1>11, <1>13 DEF KdfInv

\* A turn of the loop hashes one more block: its start goes to out, its rest to the cache.
LEMMA KdfFill ==
    ASSUME KdfInv, Fill
    PROVE  KdfInv'
<1> DEFINE c == Least(want - Len(filled), Size)
           h == Hash[counter]
<1>1. /\ Size \in Nat \ {0} /\ MaxTotal \in Nat /\ Modulus \in Nat \ {0, 1}
      /\ filled \in Seq(Byte) /\ Len(filled) \in Nat /\ want \in Nat /\ total \in Nat
      /\ counter \in 0..(Modulus - 1)
  BY HashAssumption DEF KdfInv, KdfTypeOK
<1>2. reader = "fill" /\ Len(filled) < want
  BY DEF Fill
<1>3. cache = <<>> /\ total + want <= MaxTotal
  BY <1>2 DEF KdfInv, FillOK
<1>4. c \in 1..Size /\ Len(filled) + c <= want /\ (Len(filled) + c < want => c = Size)
  BY <1>1, <1>2 DEF Least
<1>5. h \in Seq(Byte) /\ Len(h) = Size
  BY Zenon, <1>1, HashValue
<1>6. /\ filled' = filled \o SubSeq(h, 1, c) /\ cache' = SubSeq(h, c + 1, Size)
      /\ counter' = (counter + 1) % Modulus
      /\ reader' = reader /\ want' = want /\ buf' = buf /\ total' = total
  BY Zenon DEF Fill
<1> HIDE DEF c, h
<1>7. /\ SubSeq(h, 1, c) \in Seq(Byte) /\ Len(SubSeq(h, 1, c)) = c
      /\ \A j \in 1..c : SubSeq(h, 1, c)[j] = h[j]
  BY <1>1, <1>4, <1>5, Slice
<1>8. /\ cache' \in Seq(Byte) /\ Len(cache') = Size - c
      /\ \A j \in 1..(Size - c) : cache'[j] = h[c + j]
  <2>1. c + 1 \in 1..(Len(h) + 1) /\ Size \in ((c + 1) - 1)..Len(h)
    BY <1>1, <1>4, <1>5
  <2>2. /\ cache' \in Seq(Byte)
        /\ Len(cache') = Size - (c + 1) + 1
        /\ \A j \in 1..(Size - (c + 1) + 1) : cache'[j] = h[(c + 1) + j - 1]
    BY Zenon, <2>1, <1>5, <1>6, Slice
  <2>3. Size - (c + 1) + 1 = Size - c /\ \A j \in Int : (c + 1) + j - 1 = c + j
    BY <1>1, <1>4
  <2> QED BY <2>2, <2>3, <1>1, <1>4
<1>9. /\ filled' \in Seq(Byte) /\ Len(filled') = Len(filled) + c
      /\ \A j \in 1..Len(filled) : filled'[j] = filled[j]
      /\ \A j \in 1..c : filled'[Len(filled) + j] = h[j]
  BY <1>1, <1>4, <1>6, <1>7
<1>10. PICK b \in Nat : Place(b)
  BY Zenon DEF KdfInv
<1>11. Pos = total + Len(filled) /\ Pos' = total + Len(filled) + c
  BY <1>1, <1>2, <1>4, <1>6, <1>9 DEF Pos
<1>12. counter = (b + 1) % Modulus /\ total + Len(filled) = Size * b
  BY <1>1, <1>3, <1>10, <1>11 DEF Place
<1>13. \A j \in 1..Size : h[j] = Stream(total + Len(filled) + j - 1)
  BY Zenon, <1>12, BlockOfStream DEF h
<1>14. (counter + 1) % Modulus = ((b + 1) + 1) % Modulus
  <2>1. b + 1 \in Nat /\ Modulus \in Nat \ {0}
    BY <1>1
  <2>2. (((b + 1) % Modulus) + 1) % Modulus = ((b + 1) + 1) % Modulus
    BY Zenon, <2>1, BlockCounter
  <2> QED BY Zenon, <2>2, <1>12
<1>15. KdfTypeOK'
  <2>1. (counter + 1) % Modulus \in 0..(Modulus - 1)
    BY <1>1
  <2> QED BY <2>1, <1>1, <1>4, <1>6, <1>8, <1>9 DEF KdfInv, KdfTypeOK
<1>16. FillOK'
  <2>1. Len(filled) + c < want => cache' = <<>>
    BY <1>1, <1>4, <1>8
  <2> QED BY Zenon, <2>1, <1>3, <1>6, <1>9 DEF FillOK
<1>17. CacheOK'
  <2> SUFFICES ASSUME NEW j \in 1..Len(cache') PROVE cache'[j] = Stream(Pos' + j - 1)
    BY Zenon DEF CacheOK, Stream
  <2>1. c + j \in 1..Size /\ cache'[j] = h[c + j]
    BY <1>1, <1>4, <1>8
  <2>2. h[c + j] = Stream(total + Len(filled) + (c + j) - 1)
    BY Zenon, <2>1, <1>13
  <2>3. total + Len(filled) + (c + j) - 1 = Pos' + j - 1
    BY SMTT(20), <1>1, <1>4, <1>11
  <2> QED BY Zenon, <2>1, <2>2, <2>3
<1>18. OutOK'
  <2> SUFFICES ASSUME NEW j \in 1..Len(filled') PROVE filled'[j] = Stream(total' + j - 1)
    BY Zenon DEF OutOK, Stream
  <2>1. CASE j <= Len(filled)
    <3>1. j \in 1..Len(filled)
      BY <2>1, <1>1, <1>4, <1>9
    <3>2. filled[j] = Stream(total + j - 1)
      BY Zenon, <3>1, <1>2 DEF KdfInv, OutOK
    <3> QED BY Zenon, <3>1, <3>2, <1>6, <1>9
  <2>2. CASE Len(filled) < j
    <3> DEFINE e == j - Len(filled)
    <3>1. e \in 1..c /\ e \in 1..Size /\ j = Len(filled) + e
      BY <2>2, <1>1, <1>4, <1>9
    <3>2. total + Len(filled) + e - 1 = total + j - 1
      BY <3>1, <1>1
    <3> HIDE DEF e
    <3>3. filled'[j] = h[e]
      BY <3>1, <1>9
    <3> QED BY Zenon, <3>1, <3>2, <3>3, <1>6, <1>13
  <2> QED BY SMTT(20), <2>1, <2>2, <1>1, <1>4, <1>9
<1>19. Place(b + 1)'
  <2>1. Size * (b + 1) = Size * b + Size
    BY <1>1
  <2>2. Size * b \in Int
    BY <1>1
  <2>3. Pos' + Len(cache') = total + Len(filled) + Size
    BY <1>1, <1>4, <1>8, <1>11
  <2>4. Pos' + Len(cache') = Size * (b + 1)
    BY Zenon, <2>1, <2>2, <2>3, <1>12
  <2> QED BY Zenon, <2>4, <1>6, <1>14 DEF Place
<1> QED BY <1>15, <1>16, <1>17, <1>18, <1>19 DEF KdfInv

\* A call that returns has the next bytes of the stream in its buffer.
LEMMA KdfReturn ==
    ASSUME KdfInv, ReadDone
    PROVE  /\ KdfInv'
           /\ buf' = [j \in 1..want |-> Stream(total + j - 1)]
<1>1. /\ reader = "fill" /\ Len(filled) = want /\ reader' = "idle" /\ buf' = filled
      /\ total' = total + want /\ counter' = counter /\ cache' = cache /\ want' = want /\ filled' = filled
  BY Zenon DEF ReadDone
<1>2. filled \in Seq(Byte) /\ want \in Nat /\ total \in Nat /\ MaxTotal \in Nat
  BY HashAssumption DEF KdfInv, KdfTypeOK
<1>3. Pos = total + want /\ Pos' = total + want
  BY Zenon, <1>1 DEF Pos
<1>4. KdfTypeOK' /\ FillOK' /\ OutOK'
  BY SMTT(20), <1>1, <1>2 DEF KdfInv, KdfTypeOK, FillOK, OutOK
<1>5. CacheOK'
  BY Zenon, <1>1, <1>3 DEF KdfInv, CacheOK, Stream
<1>6. \E b \in Nat : Place(b)'
  BY Zenon, <1>1, <1>3 DEF KdfInv, Place
<1>7. \A j \in 1..want : filled[j] = Stream(total + j - 1)
  BY Zenon, <1>1 DEF KdfInv, OutOK
<1>8. filled = [j \in 1..want |-> Stream(total + j - 1)]
  BY SMTT(20), <1>1, <1>2, <1>7
<1> QED BY Zenon, <1>1, <1>4, <1>5, <1>6, <1>8 DEF KdfInv

\* A step that changes nothing keeps the invariant.
LEMMA KdfStutter ==
    ASSUME KdfInv, UNCHANGED kdfVars
    PROVE  KdfInv'
BY DEF kdfVars, KdfInv, KdfTypeOK, FillOK, CacheOK, OutOK, Place, Pos, Stream

\* Whatever the key is used for, the reader takes its own steps only.
LEMMA ReaderSteps == [Next]_vars => [KdfNext]_kdfVars
BY DEF Next, Derive, UseKey, vars

\* The reader is new at first.
LEMMA ReaderStarts == Init => KdfInit
BY DEF Init

\* The invariant of the reader, and with it its types.
THEOREM KdfInvariant == Spec => [](KdfTypeOK /\ KdfInv)
<1>1. KdfInv /\ [KdfNext]_kdfVars => KdfInv'
  BY KdfReadCache, KdfFill, KdfReturn, KdfStutter DEF KdfNext
<1>2. KdfInv => KdfTypeOK
  BY DEF KdfInv
<1> QED BY ReaderSteps, ReaderStarts, KdfInvInit, <1>1, <1>2, PTL DEF Spec

\* Read implements the abstract byte stream: for every block size, counter width
\* and splitting of the reads, each call returns the next bytes of the hash
\* blocks in order.
THEOREM DeliversStreamAlways == Spec => DeliversStream
<1>1. KdfInit => Abstract!Init
  BY DEF KdfInit, Abstract!Init
<1>2. KdfInv /\ [KdfNext]_kdfVars => [Abstract!Next]_<<total, buf>>
  <2> SUFFICES ASSUME KdfInv, [KdfNext]_kdfVars PROVE [Abstract!Next]_<<total, buf>>
    OBVIOUS
  <2>1. CASE ReadDone
    <3>1. want \in 0..MaxTotal /\ total + want <= MaxTotal /\ total' = total + want
      BY <2>1, HashAssumption DEF KdfInv, KdfTypeOK, FillOK, ReadDone
    <3>2. buf' = [j \in 1..want |-> Stream(total + j - 1)]
      BY Zenon, <2>1, KdfReturn
    <3>3. Abstract!Read(want)
      BY Zenon, <3>1, <3>2 DEF Abstract!Read, Stream
    <3> QED BY Zenon, <3>1, <3>3 DEF Abstract!Next
  <2>2. CASE Fill
    BY <2>2 DEF Fill
  <2>3. CASE \E n \in 0..MaxTotal : ReadCache(n)
    BY <2>3 DEF ReadCache
  <2>4. CASE UNCHANGED kdfVars
    BY Zenon, <2>4 DEF kdfVars
  <2> QED BY <2>1, <2>2, <2>3, <2>4 DEF KdfNext
<1> QED BY ReaderSteps, ReaderStarts, KdfInvariant, <1>1, <1>2, PTL DEF Spec, DeliversStream, Abstract!Spec

(***************************************************************************)
(* PBES2: for any number of goroutines and any salt and count that a       *)
(* Recipient may supply.                                                   *)
(***************************************************************************)
Past == {"count", "derive", "header"}
Local == [pc : Storing \cup {"idle"} \cup Past, salt : Nat, key : Int \X Int, raced : BOOLEAN]

\* The local state l of a call, next to the fields s and n of the cipher.
CallOK(l, s, n) ==
    /\ l.pc \in Storing => l.salt # 0
    /\ l.pc = "storelen" => s.ptr # 0
    /\ l.pc = "storeptr" \/ l.pc \in Past => s.set
    /\ l.pc \in Past /\ ~l.raced => s.ptr # 0
    /\ l.pc \in {"derive", "header"} => n > 0
    /\ l.pc = "header" /\ ~l.raced => l.key = <<s.ptr, n>>

\* The count is within the limit of decryptKey exactly if the given one was.
Limited(n) == n <= maxP2C <=> GivenCount <= maxP2C

\* A length without a pointer is there only while someone is about to store it.
TornOK == p2s.set /\ p2s.ptr = 0 => \E c \in Caller : call[c].pc = "storeptr"

SaltInv ==
    /\ p2s \in [ptr : Int, set : BOOLEAN]
    /\ p2c \in Int /\ Limited(p2c)
    /\ salts \in Nat
    /\ call \in [Caller -> Local]
    /\ last \in Outcome
    /\ \A c \in Caller : CallOK(call[c], p2s, p2c)
    /\ TornOK
    /\ EnvelopeOpens

\* What a call that was not raced returns, its receiver can open, up to the limit.
LEMMA HeaderOpens ==
    ASSUME NEW l, NEW s, NEW n \in Int, Limited(n), CallOK(l, s, n), l.pc = "header", ~l.raced, NEW b
    PROVE  DecryptKeyOK([outcome |-> "ok", key |-> l.key, header |-> <<s.ptr, n>>, raced |-> b])
              <=> GivenCount <= maxP2C
  BY Zenon DEF CallOK, Past, DecryptKeyOK, Limited

\* A call that has read its new salt.
LEMMA StoreLocal ==
    ASSUME NEW n \in Nat, NEW b \in BOOLEAN
    PROVE  At("store", n, b) \in Local /\ At("store", n, b).pc = "store" /\ At("store", n, b).salt = n
  BY DEF At, Local, Storing

\* A new cipher has its given salt and count, and no call under way.
LEMMA SaltInvInit == Pbes2Init => SaltInv
<1> SUFFICES ASSUME Pbes2Init PROVE SaltInv
  OBVIOUS
<1>1. \A c \in Caller : call[c] = Idle
  BY Zenon DEF Pbes2Init
<1>2. Idle \in Local /\ CallOK(Idle, p2s, p2c)
  BY DEF At, Idle, Local, CallOK, Past, Storing
<1>3. call \in [Caller -> Local]
  BY <1>2 DEF Pbes2Init
<1>4. p2s \in [ptr : Int, set : BOOLEAN] /\ TornOK
  BY Zenon, GivenAssumption DEF Pbes2Init, TornOK
<1>5. last \in Outcome /\ EnvelopeOpens
  BY DEF Pbes2Init, NoReturn, Outcome, EnvelopeOpens
<1>6. p2c \in Int /\ Limited(p2c) /\ salts \in Nat
  BY GivenAssumption DEF Pbes2Init, Limited
<1> QED
  BY Zenon, <1>1, <1>2, <1>3, <1>4, <1>5, <1>6 DEF SaltInv

\* A step of one goroutine that leaves ctx.p2s alone.
LEMMA QuietStep ==
    ASSUME SaltInv, NEW c \in Caller, NEW l \in Local,
           call[c].pc # "storeptr", UNCHANGED p2s,
           call' = [call EXCEPT ![c] = l],
           p2c' = p2c \/ (p2c <= 0 /\ p2c' = defaultP2C),
           salts' \in Nat, CallOK(l, p2s, p2c'),
           last' \in Outcome, EnvelopeOpens'
    PROVE  SaltInv'
<1>1. p2c' \in Int /\ Limited(p2c')
  BY DEF SaltInv, Limited, defaultP2C, maxP2C
<1>2. call' \in [Caller -> Local]
  BY DEF SaltInv
<1>3. ASSUME NEW d \in Caller PROVE CallOK(call'[d], p2s', p2c')
  <2>1. CASE d = c
    BY <2>1 DEF SaltInv
  <2>2. CASE d # c
    <3>1. call'[d] = call[d] /\ CallOK(call[d], p2s, p2c)
      BY <2>2 DEF SaltInv
    <3>2. CASE p2c' = p2c
      BY Zenon, <3>1, <3>2
    <3>3. CASE p2c <= 0 /\ p2c' = defaultP2C
      <4>1. call[d].pc \notin {"derive", "header"}
        BY <3>1, <3>3 DEF CallOK, SaltInv
      <4> QED
        BY ZenonT(30), <3>1, <4>1 DEF CallOK
    <3> QED
      BY <3>2, <3>3
  <2> QED
    BY <2>1, <2>2
<1>4. TornOK'
  BY DEF SaltInv, TornOK
<1> QED
  BY <1>1, <1>2, <1>3, <1>4 DEF SaltInv

\* Every access to the salt and the count keeps the invariant.
LEMMA SaltInvStep == SaltInv /\ [Pbes2Next]_pbes2Vars => SaltInv'
<1> SUFFICES ASSUME SaltInv, [Pbes2Next]_pbes2Vars PROVE SaltInv'
  OBVIOUS
<1>t. /\ p2s \in [ptr : Int, set : BOOLEAN] /\ p2c \in Int /\ Limited(p2c) /\ salts \in Nat
      /\ call \in [Caller -> Local] /\ last \in Outcome /\ TornOK /\ EnvelopeOpens
  BY DEF SaltInv
<1>k. \A c \in Caller : CallOK(call[c], p2s, p2c) /\ call[c] \in Local
  BY DEF SaltInv
<1>g. ASSUME UNCHANGED last PROVE last' \in Outcome /\ EnvelopeOpens'
  BY Zenon, <1>t, <1>g DEF EnvelopeOpens
<1>i. Idle \in Local /\ CallOK(Idle, p2s, p2c)
  BY DEF At, Idle, Local, CallOK, Past, Storing
<1>e. ASSUME NEW c \in Caller, NEW ret \in Outcome, Return(c, ret), call[c].pc # "storeptr",
             UNCHANGED <<p2s, p2c, salts>>,
             ~ret.raced => /\ ret.outcome # "panic"
                           /\ ret.outcome = "ok" => (DecryptKeyOK(ret) <=> GivenCount <= maxP2C)
      PROVE  SaltInv'
  <2>1. last' \in Outcome /\ EnvelopeOpens'
    BY Zenon, <1>e DEF Return, EnvelopeOpens
  <2> QED
    BY Zenon, <1>e, <1>i, <1>t, <2>1, QuietStep DEF Return
<1>f. ASSUME NEW c \in Caller
      PROVE  Error(c) \in Outcome /\ Error(c).outcome = "error" /\ Error(c).raced = call[c].raced
  <2> DEFINE b == call[c].raced
  <2>1. b \in BOOLEAN
    BY <1>t DEF Local
  <2>2. Error(c) = [NoReturn EXCEPT !.outcome = "error", !.raced = b]
    BY DEF Error
  <2> HIDE DEF b
  <2>3. Error(c) = [outcome |-> "error", key |-> <<0, 0>>, header |-> <<0, 0>>, raced |-> b]
    BY Zenon, <2>2 DEF NoReturn
  <2> QED
    BY <2>1, <2>3 DEF Outcome, b
<1>1. ASSUME NEW c \in Caller, CheckSalt(c) PROVE SaltInv'
  <2> DEFINE raced == \E d \in Caller : call[d].pc \in Storing
  <2>1. call[c].pc = "idle" /\ UNCHANGED <<p2s, p2c>>
    BY <1>1 DEF CheckSalt
  <2>2. ASSUME NEW b \in BOOLEAN, ~b => ~raced, p2s.set,
               Goto(c, At("count", 0, b)), UNCHANGED salts
        PROVE  SaltInv'
    <3> DEFINE l == At("count", 0, b)
    <3>1. l \in Local /\ l.pc = "count" /\ l.raced = b
      BY DEF At, Local, Past
    <3>2. ~b => p2s.ptr # 0
      BY SMTT(20), <1>t, <2>2 DEF TornOK, Storing
    <3>3. CallOK(l, p2s, p2c)
      BY Zenon, <2>2, <3>1, <3>2 DEF CallOK, Past, Storing
    <3>4. call' = [call EXCEPT ![c] = l] /\ UNCHANGED last
      BY <2>2 DEF Goto
    <3> HIDE DEF l
    <3> QED
      BY Zenon, <1>t, <1>g, <2>1, <2>2, <3>1, <3>3, <3>4, QuietStep
  <2>3. ASSUME NEW b \in BOOLEAN, salts' = salts + 1,
               Goto(c, At("store", salts + 1, b))
        PROVE  SaltInv'
    <3> DEFINE n == salts + 1
               l == At("store", n, b)
    <3>1. n \in Nat /\ n # 0 /\ call' = [call EXCEPT ![c] = l] /\ UNCHANGED last
      BY SMTT(20), <1>t, <2>3 DEF Goto
    <3> HIDE DEF n
    <3>2. l \in Local /\ l.pc = "store" /\ l.salt = n
      BY Zenon, <2>3, <3>1, StoreLocal
    <3>3. CallOK(l, p2s, p2c)
      BY <3>1, <3>2 DEF CallOK, Past, Storing
    <3> HIDE DEF l
    <3> QED
      BY Zenon, <1>t, <1>g, <2>1, <2>3, <3>1, <3>2, <3>3, QuietStep DEF n
  <2>4. ASSUME NEW b \in BOOLEAN, Return(c, [Error(c) EXCEPT !.raced = b]), UNCHANGED salts
        PROVE  SaltInv'
    <3> DEFINE ret == [Error(c) EXCEPT !.raced = b]
    <3>1. ret \in Outcome /\ ret.outcome = "error"
      BY <1>f DEF Outcome
    <3> HIDE DEF ret
    <3> QED
      BY Zenon, <1>e, <2>1, <2>4, <3>1 DEF ret
  <2>5. raced \in BOOLEAN /\ (~raced => ~raced)
    OBVIOUS
  <2> QED
    BY Zenon, <1>1, <2>2, <2>3, <2>4, <2>5 DEF CheckSalt
<1>2. ASSUME NEW c \in Caller, StoreSalt(c) PROVE SaltInv'
  <2>1. PICK to \in {"storelen", "storeptr", "count"} :
           /\ call' = [d \in Caller |->
                         IF d = c THEN [call[c] EXCEPT !.pc = to]
                         ELSE IF call[d].pc = "idle" THEN Idle ELSE [call[d] EXCEPT !.raced = TRUE]]
           /\ \/ /\ p2s' = [p2s EXCEPT !.ptr = call[c].salt]
                 /\ \/ call[c].pc = "store" /\ to = "storelen"
                    \/ call[c].pc = "storeptr" /\ to = "count"
              \/ /\ p2s' = [p2s EXCEPT !.set = TRUE]
                 /\ \/ call[c].pc = "store" /\ to = "storeptr"
                    \/ call[c].pc = "storelen" /\ to = "count"
    BY <1>2 DEF StoreSalt
  <2>2. UNCHANGED <<p2c, salts, last>>
    BY <1>2 DEF StoreSalt
  <2>3. /\ call[c].pc \in Storing /\ call[c].salt # 0 /\ call[c].salt \in Nat
        /\ call[c].pc = "storelen" => p2s.ptr # 0
        /\ call[c].pc = "storeptr" => p2s.set
    BY <1>k, <2>1 DEF CallOK, Storing, Local
  <2>4. /\ p2s' \in [ptr : Int, set : BOOLEAN]
        /\ p2s.ptr # 0 => p2s'.ptr # 0
        /\ p2s.set => p2s'.set
        /\ to = "storelen" => p2s'.ptr # 0
        /\ to = "storeptr" => p2s'.set
        /\ to = "count" => p2s'.ptr # 0 /\ p2s'.set
    <3>1. p2s.ptr \in Int /\ p2s.set \in BOOLEAN
      BY <1>t
    <3>2. CASE p2s' = [p2s EXCEPT !.ptr = call[c].salt]
      <4>1. p2s' \in [ptr : Int, set : BOOLEAN] /\ p2s'.ptr = call[c].salt /\ p2s'.set = p2s.set
        BY <1>t, <2>3, <3>2
      <4> QED
        BY <2>1, <2>3, <4>1
    <3>3. CASE p2s' = [p2s EXCEPT !.set = TRUE]
      <4>1. p2s' \in [ptr : Int, set : BOOLEAN] /\ p2s'.ptr = p2s.ptr /\ p2s'.set = TRUE
        BY Zenon, <1>t, <3>3
      <4>2. to = "storelen" => p2s'.ptr # 0
        BY <2>1, <2>3, <4>1
      <4> QED
        BY <2>1, <2>3, <4>1, <4>2
    <3> QED
      BY <2>1, <3>2, <3>3
  <2>5. [call[c] EXCEPT !.pc = to] \in Local /\ CallOK([call[c] EXCEPT !.pc = to], p2s', p2c)
    BY <1>k, <2>3, <2>4 DEF CallOK, Local, Past, Storing
  <2>6. ASSUME NEW d \in Caller
        PROVE  /\ [call[d] EXCEPT !.raced = TRUE] \in Local
               /\ CallOK([call[d] EXCEPT !.raced = TRUE], p2s', p2c)
    BY Zenon, <1>k, <2>4 DEF CallOK, Local
  <2>7. Idle \in Local /\ CallOK(Idle, p2s', p2c)
    BY DEF At, Idle, Local, CallOK, Past, Storing
  <2>8. call' \in [Caller -> Local] /\ \A d \in Caller : CallOK(call'[d], p2s', p2c')
    BY SMTT(20), <2>1, <2>2, <2>5, <2>6, <2>7
  <2>9. TornOK'
    <3>1. \A d \in Caller : d # c /\ call[d].pc = "storeptr" => call'[d].pc = "storeptr"
      BY <1>k, <2>1 DEF Local
    <3>2. to = "storeptr" => call'[c].pc = "storeptr"
      BY <1>k, <2>1 DEF Local
    <3>3. p2s'.set /\ p2s'.ptr = 0 /\ to # "storeptr" => FALSE
      BY <2>4
    <3> QED
      BY <3>2, <3>3 DEF TornOK
  <2> QED
    BY <1>t, <1>g, <2>2, <2>4, <2>8, <2>9 DEF SaltInv
<1>3. ASSUME NEW c \in Caller, SetCount(c) PROVE SaltInv'
  <2> DEFINE l == [call[c] EXCEPT !.pc = "derive"]
  <2>1. l \in Local /\ l.pc = "derive" /\ l.raced = call[c].raced
    BY <1>k DEF Local, Past
  <2>2. CallOK(call[c], p2s, p2c) /\ call[c].pc = "count"
    BY <1>3, <1>k DEF SetCount
  <2>3. /\ p2c' = p2c \/ (p2c <= 0 /\ p2c' = defaultP2C)
        /\ p2c' > 0
        /\ UNCHANGED <<p2s, salts>> /\ call' = [call EXCEPT ![c] = l] /\ UNCHANGED last
    BY <1>3, <1>t DEF SetCount, Goto, defaultP2C
  <2>4. CallOK(l, p2s, p2c')
    BY <2>1, <2>2, <2>3 DEF CallOK, Past, Storing
  <2> HIDE DEF l
  <2> QED
    BY Zenon, <1>t, <1>g, <2>1, <2>2, <2>3, <2>4, QuietStep
<1>4. ASSUME NEW c \in Caller, DeriveKey(c) PROVE SaltInv'
  <2>1. CallOK(call[c], p2s, p2c) /\ call[c].pc = "derive" /\ UNCHANGED <<p2s, p2c, salts>>
    BY <1>4, <1>k DEF DeriveKey
  <2>2. ASSUME p2s.set, p2s.ptr = 0, Return(c, [Error(c) EXCEPT !.outcome = "panic"]) PROVE SaltInv'
    <3> DEFINE ret == [Error(c) EXCEPT !.outcome = "panic"]
    <3>1. ret \in Outcome /\ ret.raced = call[c].raced
      BY <1>f DEF Outcome
    <3>2. call[c].raced
      BY <2>1, <2>2, <1>k DEF CallOK, Past, Local
    <3> HIDE DEF ret
    <3> QED
      BY Zenon, <1>e, <2>1, <2>2, <3>1, <3>2 DEF ret
  <2>3. ASSUME Return(c, [Error(c) EXCEPT !.outcome = "empty"]) PROVE SaltInv'
    <3> DEFINE ret == [Error(c) EXCEPT !.outcome = "empty"]
    <3>1. ret \in Outcome /\ ret.outcome = "empty"
      BY <1>f DEF Outcome
    <3> HIDE DEF ret
    <3> QED
      BY Zenon, <1>e, <2>1, <2>3, <3>1 DEF ret
  <2>4. ASSUME Goto(c, [call[c] EXCEPT !.pc = "header", !.key = <<p2s.ptr, p2c>>]) PROVE SaltInv'
    <3> DEFINE l == [call[c] EXCEPT !.pc = "header", !.key = <<p2s.ptr, p2c>>]
    <3>1. l \in Local /\ l.pc = "header" /\ l.raced = call[c].raced /\ l.key = <<p2s.ptr, p2c>>
      BY Zenon, <1>k, <1>t DEF Local, Past
    <3>2. CallOK(l, p2s, p2c)
      BY <2>1, <3>1 DEF CallOK, Past, Storing
    <3>3. call' = [call EXCEPT ![c] = l] /\ UNCHANGED last
      BY Zenon, <2>4 DEF Goto
    <3> HIDE DEF l
    <3> QED
      BY Zenon, <1>t, <1>g, <2>1, <3>1, <3>2, <3>3, QuietStep
  <2> QED
    BY <1>4, <2>2, <2>3, <2>4 DEF DeriveKey
<1>5. ASSUME NEW c \in Caller, SetHeader(c) PROVE SaltInv'
  <2> DEFINE ret == [outcome |-> "ok", key |-> call[c].key, header |-> <<p2s.ptr, p2c>>,
                   raced |-> call[c].raced]
  <2>1. CallOK(call[c], p2s, p2c) /\ call[c].pc = "header" /\ UNCHANGED <<p2s, p2c, salts>>
    BY Zenon, <1>5, <1>k DEF SetHeader
  <2>2. ret \in Outcome
    BY ZenonT(30), <1>k, <1>t DEF Local, Outcome
  <2>3. ~ret.raced => ret.outcome # "panic" /\ (DecryptKeyOK(ret) <=> GivenCount <= maxP2C)
    BY Zenon, <1>t, <2>1, HeaderOpens
  <2>4. CASE Return(c, ret)
    <3> HIDE DEF ret
    <3> QED
      BY Zenon, <1>e, <2>1, <2>2, <2>3, <2>4
  <2>5. CASE Return(c, Error(c))
    BY Zenon, <1>e, <1>f, <2>1, <2>5
  <2> QED
    BY Zenon, <1>5, <2>4, <2>5 DEF SetHeader
<1>6. CASE UNCHANGED pbes2Vars
  BY <1>6 DEF pbes2Vars, SaltInv, TornOK, EnvelopeOpens
<1> QED
  BY <1>1, <1>2, <1>3, <1>4, <1>5, <1>6 DEF Pbes2Next

\* A PBES2 recipient opens with its password unless another goroutine stored a
\* salt into the shared cipher during the call that made it, or the given count is
\* above the limit of decryptKey, and then it never opens.
THEOREM EnvelopeOpensAlways == Pbes2Spec => []EnvelopeOpens
<1>1. SaltInv => EnvelopeOpens
  BY DEF SaltInv
<1> QED
  BY <1>1, SaltInvInit, SaltInvStep, PTL DEF Pbes2Spec

\* The salt is chosen in the cold start only: once it is stored and no call is
\* about to replace it, no step of encryptKey replaces it.
THEOREM SaltSticksAlways == Pbes2Spec => SaltSticks
<1>1. ASSUME SaltInv, [Pbes2Next]_pbes2Vars, Warm PROVE Warm' /\ UNCHANGED p2s
  <2>t. call \in [Caller -> Local] /\ p2s.set /\ \A c \in Caller : call[c].pc \notin Storing
    BY <1>1 DEF SaltInv, Warm
  <2>m. ASSUME NEW c \in Caller, NEW l, call' = [call EXCEPT ![c] = l], l.pc \notin Storing,
               UNCHANGED p2s
        PROVE  Warm' /\ UNCHANGED p2s
    BY <2>t, <2>m DEF Warm
  <2>i. Idle.pc \notin Storing
    BY DEF At, Idle, Storing
  <2>1. ASSUME NEW c \in Caller, CheckSalt(c) PROVE Warm' /\ UNCHANGED p2s
    <3> DEFINE raced == \E d \in Caller : call[d].pc \in Storing
    <3>1. Goto(c, At("count", 0, raced)) /\ UNCHANGED p2s
      BY Zenon, <2>t, <2>1 DEF CheckSalt
    <3>2. \A b : At("count", 0, b).pc \notin Storing
      BY DEF At, Storing
    <3> HIDE DEF raced
    <3> QED
      BY Zenon, <2>m, <3>1, <3>2 DEF Goto
  <2>2. ASSUME NEW c \in Caller, StoreSalt(c) PROVE FALSE
    BY <2>t, <2>2 DEF StoreSalt, Storing
  <2>3. ASSUME NEW c \in Caller, SetCount(c) PROVE Warm' /\ UNCHANGED p2s
    <3>1. [call[c] EXCEPT !.pc = "derive"].pc \notin Storing
      BY <2>t DEF Local, Storing
    <3> QED
      BY Zenon, <2>m, <2>3, <3>1 DEF SetCount, Goto
  <2>4. ASSUME NEW c \in Caller, DeriveKey(c) PROVE Warm' /\ UNCHANGED p2s
    <3>1. [call[c] EXCEPT !.pc = "header", !.key = <<p2s.ptr, p2c>>].pc \notin Storing
      BY Zenon, <2>t DEF Local, Storing
    <3> QED
      BY Zenon, <2>i, <2>m, <2>4, <3>1 DEF DeriveKey, Goto, Return
  <2>5. ASSUME NEW c \in Caller, SetHeader(c) PROVE Warm' /\ UNCHANGED p2s
    BY <2>i, <2>m, <2>5 DEF SetHeader, Return
  <2>6. CASE UNCHANGED pbes2Vars
    BY <1>1, <2>6 DEF pbes2Vars, Warm
  <2> QED
    BY SMTT(20), <1>1, <2>1, <2>2, <2>3, <2>4, <2>5, <2>6 DEF Pbes2Next
<1> QED
  BY <1>1, SaltInvInit, SaltInvStep, PTL DEF Pbes2Spec, SaltSticks

=============================================================================
