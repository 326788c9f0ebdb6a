------------------------------ MODULE KeyFiles ------------------------------
(***************************************************************************)
(* The generate-key command of jose-util: a key pair is made and written   *)
(* to two new files, the public key first (jose-util/generate.go:29-105,   *)
(* writeNewFile in jose-util/io.go:71-84).  Several processes may run in   *)
(* one directory with the same key id, writes may fail or be short, and a  *)
(* process may be killed between any two system calls.                     *)
(*                                                                         *)
(* A file is the key it was written from and whether it holds all of the   *)
(* serialized key; the two names of a pair are one name here.              *)
(***************************************************************************)
EXTENDS Integers, FiniteSets

CONSTANTS
    Procs,      \* processes
    Kids,       \* values given with --kid (and use): names chosen by a user
    MaxKeys     \* bound: keys generated

ASSUME KeysAssumption == MaxKeys \in Nat

VARIABLES
    pub, priv,   \* the files <name>-pub.json and <name>-priv.json
    stage, job,  \* where a process is, and its key and file name
    keys         \* how many keys were generated

filesVars == <<pub, priv, stage, job, keys>>

NoKid == "no --kid flag"
Names == [given : Kids \cup {NoKid}, thumb : 0 .. MaxKeys]
Extents == {"whole", "partial"}
File(key, text) == [key |-> key, text |-> text]
NoFile == File(0, "partial")
Files == [key : 0 .. MaxKeys, text : Extents]
Exists(f) == f.key # 0

(* The id given, or the thumbprint, which no two keys share.               *)
NameOf(kid, key) == [given |-> kid, thumb |-> IF kid = NoKid THEN key ELSE 0]
Job(kid, key) == [key |-> key, name |-> NameOf(kid, key)]

Stages == {"openPub", "writePub", "openPriv", "writePriv"}
Resting == {"idle", "ok", "failed"}
Running(n) == \E p \in Procs : stage[p] \in Stages /\ job[p].name = n

Complete(n) ==
    /\ Exists(pub[n]) /\ pub[n].text = "whole"
    /\ Exists(priv[n]) /\ priv[n].text = "whole"

FilesInit ==
    /\ pub = [n \in Names |-> NoFile]
    /\ priv = [n \in Names |-> NoFile]
    /\ stage = [p \in Procs |-> "idle"]
    /\ job = [p \in Procs |-> Job(NoKid, 0)]
    /\ keys = 0

GoTo(p, l) == stage' = [stage EXCEPT ![p] = l]
SetPub(p, f) == pub' = [pub EXCEPT ![job[p].name] = f]
SetPriv(p, f) == priv' = [priv EXCEPT ![job[p].name] = f]

(* generate, up to the file names.                                         *)
Generate(p) ==
    /\ stage[p] \in Resting /\ keys < MaxKeys
    /\ keys' = keys + 1
    /\ \E kid \in Kids \cup {NoKid} : job' = [job EXCEPT ![p] = Job(kid, keys + 1)]
    /\ GoTo(p, "openPub")
    /\ UNCHANGED <<pub, priv>>

(* os.OpenFile with O_CREATE and O_EXCL: fails when the file exists, and   *)
(* may fail otherwise.                                                     *)
OpenPub(p) ==
    /\ stage[p] = "openPub"
    /\ \/ ~Exists(pub[job[p].name]) /\ SetPub(p, File(job[p].key, "partial")) /\ GoTo(p, "writePub")
       \/ GoTo(p, "failed") /\ UNCHANGED pub
    /\ UNCHANGED <<priv, job, keys>>

WritePubUnchecked(p) ==
    /\ stage[p] = "writePub"
    /\ \E text \in Extents : SetPub(p, File(job[p].key, text)) /\ GoTo(p, "openPriv")
    /\ UNCHANGED <<priv, job, keys>>

(* Write and Close: a short write is an error; Close may fail after a      *)
(* write of everything.                                                    *)
WritePub(p) ==
    /\ stage[p] = "writePub"
    /\ \/ SetPub(p, File(job[p].key, "whole")) /\ GoTo(p, "openPriv")
       \/ \E text \in Extents : SetPub(p, File(job[p].key, text)) /\ GoTo(p, "failed")
    /\ UNCHANGED <<priv, job, keys>>

OpenPriv(p) ==
    /\ stage[p] = "openPriv"
    /\ \/ ~Exists(priv[job[p].name]) /\ SetPriv(p, File(job[p].key, "partial")) /\ GoTo(p, "writePriv")
       \/ GoTo(p, "failed") /\ UNCHANGED priv
    /\ UNCHANGED <<pub, job, keys>>

WritePrivRetrying(p) ==
    /\ stage[p] = "writePriv"
    /\ \/ SetPriv(p, File(job[p].key, "whole")) /\ GoTo(p, "ok")
       \/ \E text \in Extents : SetPriv(p, File(job[p].key, text)) /\ UNCHANGED stage
    /\ UNCHANGED <<pub, job, keys>>

WritePriv(p) ==
    /\ stage[p] = "writePriv"
    /\ \/ SetPriv(p, File(job[p].key, "whole")) /\ GoTo(p, "ok")
       \/ \E text \in Extents : SetPriv(p, File(job[p].key, text)) /\ GoTo(p, "failed")
    /\ UNCHANGED <<pub, job, keys>>

(* The process is killed.  What it wrote stays.                            *)
Crash(p) ==
    /\ stage[p] \in Stages
    /\ GoTo(p, "idle")
    /\ UNCHANGED <<pub, priv, job, keys>>

(* The user removes the leftovers of a failed run, both files of the pair, *)
(* while no process works on that name.                                    *)
CleanUp(n) ==
    /\ ~Running(n)
    /\ ~Complete(n)
    /\ pub' = [pub EXCEPT ![n] = NoFile]
    /\ priv' = [priv EXCEPT ![n] = NoFile]
    /\ UNCHANGED <<stage, job, keys>>

Step(p) ==
    \/ Generate(p) \/ OpenPub(p) \/ WritePub(p)
    \/ OpenPriv(p) \/ WritePriv(p) \/ Crash(p)

FilesNext == (\E p \in Procs : Step(p)) \/ (\E n \in Names : CleanUp(n))

FilesSpec == FilesInit /\ [][FilesNext]_filesVars

-----------------------------------------------------------------------------
(* The type invariant.                                                     *)
TypeOK ==
    /\ pub \in [Names -> Files] /\ priv \in [Names -> Files]
    /\ stage \in [Procs -> Stages \cup Resting]
    /\ job \in [Procs -> [key : 0 .. MaxKeys, name : Names]]
    /\ keys \in 0 .. MaxKeys

(* Two processes, crashes and failed writes never mix up a pair: where     *)
(* there is a private key file, complete or not, the public file of the    *)
(* same key is there, complete.  It rests on O_EXCL and on the order of    *)
(* the two writes in generate.                                             *)
PairMatches ==
    \A n \in Names : Exists(priv[n]) => pub[n] = File(priv[n].key, "whole")

(* A command that reported success has left both files of its own key,     *)
(* complete, whatever other processes with the same key id do.             *)
ReturnedIsStored ==
    \A p \in Procs :
        stage[p] = "ok" => /\ pub[job[p].name] = File(job[p].key, "whole")
                        /\ priv[job[p].name] = File(job[p].key, "whole")

(* A private key file never comes to hold another key, and a complete pair *)
(* is never touched again.                                                 *)
NeverOverwritten ==
    [][\A n \in Names :
          /\ Exists(priv[n]) => priv'[n].key \in {0, priv[n].key}
          /\ Complete(n) => pub'[n] = pub[n] /\ priv'[n] = priv[n]]_filesVars
=============================================================================
