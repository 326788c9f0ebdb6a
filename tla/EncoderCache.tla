---------------------------- MODULE EncoderCache ----------------------------
(***************************************************************************)
(* The cache of encoder functions behind json.Marshal (json/encode.go).    *)
(* typeEncoder looks a type up under a read lock.  When it misses, it puts *)
(* an indirect function into the cache, builds the encoders of the         *)
(* component types without holding the lock, releases those that wait on   *)
(* the indirect function and publishes the real one.  The indirect         *)
(* function is what lets a type refer to itself; it is also what another   *)
(* goroutine finds meanwhile.  An encoder captures the encoders of its     *)
(* components, indirect ones included, for the life of the process.        *)
(*                                                                         *)
(* A goroutine is its call stack, top first.  A step is one critical       *)
(* section, one call or one wait.  Both maps of the package are nil until  *)
(* they are first written; a type that is not in the map reads as None.    *)
(***************************************************************************)
EXTENDS Integers, Sequences

CONSTANTS
    Threads,    \* goroutines that call Marshal
    Types,      \* the reflect.Types of the values marshalled
    Kind,       \* Kind[t]: "leaf", "struct", "ptr", "iface", "unsupported"
    Kids,       \* Kids[t]: types of the fields of a struct, element of a ptr
    MaxCalls,   \* bound: calls of Marshal per goroutine
    MaxNonNil   \* bound: pointers and interfaces followed on one path

\* A pointer type has one element type.
ASSUME TypesAssumption ==
    /\ Kind \in [Types -> {"leaf", "struct", "ptr", "iface", "unsupported"}]
    /\ Kids \in [Types -> Seq(Types)]
    /\ \A t \in Types : Kind[t] = "ptr" => Len(Kids[t]) = 1
ASSUME BoundsAssumption == MaxCalls \in Nat /\ MaxNonNil \in Nat

VARIABLES
    cache,      \* encoderCache.m
    builds,     \* the encoders built so far: what newTypeEncoder captured
    stack,      \* the call stack of each goroutine
    calls,      \* how many calls of Marshal a goroutine has made
    result      \* what its last call returned

vars == <<cache, builds, stack, calls, result>>

-----------------------------------------------------------------------------
(* Encoder functions and stack frames.                                     *)

\* b is the build whose variable f the function is, or reads.
None == [fn |-> "nil", b |-> 0]
Indirect(b) == [fn |-> "indirect", b |-> b]
Real(b) == [fn |-> "real", b |-> b]

\* The variables f and wg of a call of typeEncoder, and what it captured.
Build(th, t) == [by |-> th, t |-> t, kids |-> <<>>, f |-> "nil", wg |-> 1]

LookFrame(t) == [op |-> "look", t |-> t]
InstallFrame(t) == [op |-> "install", t |-> t]
BuildFrame(b) == [op |-> "build", b |-> b]
DoneFrame(b) == [op |-> "done", b |-> b]
PublishFrame(b) == [op |-> "publish", b |-> b]
StartFrame(t, n) == [op |-> "start", t |-> t, n |-> n]
CallFrame(e, t, n) == [op |-> "call", e |-> e, t |-> t, n |-> n]
FieldsFrame(b, i, n) == [op |-> "fields", b |-> b, i |-> i, n |-> n]

At(th, op) == stack[th] # <<>> /\ Head(stack[th]).op = op
Top(th) == Head(stack[th])
Replace(th, frames) == stack' = [stack EXCEPT ![th] = frames \o Tail(@)]

(* typeEncoder returns e: to newTypeEncoder, which captures it, or to      *)
(* reflectValue, which calls it.  fs are the frames below.                 *)
Deliver(th, e, bs) ==
    LET fs == Tail(stack[th]) IN
    IF Head(fs).op = "start"
      THEN /\ stack' = [stack EXCEPT ![th] =
                 <<CallFrame(e, Head(fs).t, Head(fs).n)>> \o Tail(fs)]
           /\ builds' = bs
      ELSE /\ stack' = [stack EXCEPT ![th] = fs]
           /\ builds' = [bs EXCEPT ![Head(fs).b].kids = Append(@, e)]

-----------------------------------------------------------------------------
Init ==
    /\ cache = [t \in Types |-> None]
    /\ builds = <<>>
    /\ stack = [th \in Threads |-> <<>>]
    /\ calls = [th \in Threads |-> 0]
    /\ result = [th \in Threads |-> "none"]

(* Marshal(v) with v of type t: reflectValue asks for the encoder of t.    *)
Marshal(th) ==
    /\ stack[th] = <<>> /\ calls[th] < MaxCalls
    /\ \E t \in Types :
         stack' = [stack EXCEPT ![th] = <<LookFrame(t), StartFrame(t, MaxNonNil)>>]
    /\ calls' = [calls EXCEPT ![th] = @ + 1]
    /\ result' = [result EXCEPT ![th] = "none"]
    /\ UNCHANGED <<cache, builds>>

(* encoderCache.RLock(): an encoder of any kind is used as it is.          *)
Lookup(th) ==
    /\ At(th, "look")
    /\ LET e == cache[Top(th).t] IN
       \/ e # None /\ Deliver(th, e, builds)
       \/ /\ e = None
          /\ Replace(th, <<InstallFrame(Top(th).t)>>)
          /\ UNCHANGED builds
    /\ UNCHANGED <<cache, calls, result>>

(* encoderCache.Lock(): the indirect function is installed, over whatever  *)
(* another goroutine has put there since the lookup.                       *)
Install(th) ==
    /\ At(th, "install")
    /\ builds' = Append(builds, Build(th, Top(th).t))
    /\ cache' = [cache EXCEPT ![Top(th).t] = Indirect(Len(builds) + 1)]
    /\ Replace(th, <<BuildFrame(Len(builds) + 1)>>)
    /\ UNCHANGED <<calls, result>>

(* newTypeEncoder: the encoder of the next component is asked for ...      *)
NextKid(th) ==
    /\ At(th, "build")
    /\ LET bd == builds[Top(th).b] IN
       /\ Len(bd.kids) < Len(Kids[bd.t])
       /\ stack' = [stack EXCEPT ![th] = <<LookFrame(Kids[bd.t][Len(bd.kids) + 1])>> \o @]
    /\ UNCHANGED <<cache, builds, calls, result>>

DoneBeforeAssign(th) ==
    /\ At(th, "build")
    /\ Len(builds[Top(th).b].kids) = Len(Kids[builds[Top(th).b].t])
    /\ builds' = [builds EXCEPT ![Top(th).b].wg = 0]
    /\ Replace(th, <<DoneFrame(Top(th).b)>>)
    /\ UNCHANGED <<cache, calls, result>>

(* ... and f is assigned once all of them are there.                       *)
Assign(th) ==
    /\ At(th, "build")
    /\ Len(builds[Top(th).b].kids) = Len(Kids[builds[Top(th).b].t])
    /\ builds' = [builds EXCEPT ![Top(th).b].f = "set"]
    /\ Replace(th, <<DoneFrame(Top(th).b)>>)
    /\ UNCHANGED <<cache, calls, result>>

DoneForgotten(th) ==
    /\ At(th, "done")
    /\ Replace(th, <<PublishFrame(Top(th).b)>>)
    /\ UNCHANGED <<cache, builds, calls, result>>

(* wg.Done()                                                               *)
Done(th) ==
    /\ At(th, "done")
    /\ builds' = [builds EXCEPT ![Top(th).b].wg = 0]
    /\ Replace(th, <<PublishFrame(Top(th).b)>>)
    /\ UNCHANGED <<cache, calls, result>>

PublishNothing(th) ==
    /\ At(th, "publish")
    /\ Deliver(th, Real(Top(th).b), builds)
    /\ UNCHANGED <<cache, calls, result>>

(* encoderCache.Lock(): the real function replaces what is in the cache.   *)
Publish(th) ==
    /\ At(th, "publish")
    /\ cache' = [cache EXCEPT ![builds[Top(th).b].t] = Real(Top(th).b)]
    /\ Deliver(th, Real(Top(th).b), builds)
    /\ UNCHANGED <<calls, result>>

-----------------------------------------------------------------------------
(* Running an encoder on a value.                                          *)

(* The indirect function: wg.Wait(), then f.                               *)
CallIndirect(th) ==
    /\ At(th, "call") /\ Top(th).e.fn = "indirect"
    /\ builds[Top(th).e.b].wg = 0
    /\ Replace(th, <<CallFrame(Real(Top(th).e.b), Top(th).t, Top(th).n)>>)
    /\ UNCHANGED <<cache, builds, calls, result>>

Finished(th, frames) ==
    [result EXCEPT ![th] = IF frames = <<>> THEN "ok" ELSE @]

(* A call of the function that the build returned (CallsBuilt: not nil).   *)
Calling(th, kind) ==
    /\ At(th, "call") /\ Top(th).e.fn = "real"
    /\ Kind[builds[Top(th).e.b].t] = kind
    /\ UNCHANGED <<cache, builds, calls>>

(* boolEncoder, intEncoder, uintEncoder: no further encoder is called; and *)
(* nil pointers and interfaces, written as null.                           *)
EncodeLeaf(th) ==
    /\ \E kind \in {"leaf", "ptr", "iface"} : Calling(th, kind)
    /\ Replace(th, <<>>)
    /\ result' = Finished(th, Tail(stack[th]))

EncodePtr(th) ==
    /\ Calling(th, "ptr") /\ Top(th).n > 0
    /\ LET bd == builds[Top(th).e.b] IN
       Replace(th, <<CallFrame(bd.kids[1], Kids[bd.t][1], Top(th).n - 1)>>)
    /\ UNCHANGED result

(* interfaceEncoder: reflectValue(v.Elem()), whatever type that is.        *)
EncodeInterface(th) ==
    /\ Calling(th, "iface") /\ Top(th).n > 0
    /\ \E t \in Types :
         /\ Kind[t] # "iface"
         /\ Replace(th, <<LookFrame(t), StartFrame(t, Top(th).n - 1)>>)
    /\ UNCHANGED result

EncodeStruct(th) ==
    /\ Calling(th, "struct")
    /\ Replace(th, <<FieldsFrame(Top(th).e.b, 1, Top(th).n)>>)
    /\ UNCHANGED result

EncodeField(th) ==
    /\ At(th, "fields")
    /\ LET fr == Top(th)
           bd == builds[fr.b]
       IN \/ /\ fr.i <= Len(bd.kids)
             /\ Replace(th, <<CallFrame(bd.kids[fr.i], Kids[bd.t][fr.i], fr.n),
                              FieldsFrame(fr.b, fr.i + 1, fr.n)>>)
             /\ UNCHANGED result
          \/ /\ fr.i > Len(bd.kids)
             /\ Replace(th, <<>>)
             /\ result' = Finished(th, Tail(stack[th]))
    /\ UNCHANGED <<cache, builds, calls>>

(* unsupportedTypeEncoder: e.error panics and marshal recovers.            *)
EncodeUnsupported(th) ==
    /\ Calling(th, "unsupported")
    /\ stack' = [stack EXCEPT ![th] = <<>>]
    /\ result' = [result EXCEPT ![th] = "error"]

TypeEncoderStep(th) ==
    \/ Lookup(th) \/ Install(th) \/ NextKid(th)
    \/ Assign(th) \/ Done(th) \/ Publish(th)

EncodeStep(th) ==
    \/ CallIndirect(th) \/ EncodeLeaf(th) \/ EncodePtr(th) \/ EncodeInterface(th)
    \/ EncodeStruct(th) \/ EncodeField(th) \/ EncodeUnsupported(th)

Step(th) == TypeEncoderStep(th) \/ EncodeStep(th)

Next == \E th \in Threads : Marshal(th) \/ Step(th)

Spec == Init /\ [][Next]_vars

(* A goroutine that can run is eventually run by the scheduler.  Nothing   *)
(* is assumed of Marshal: a goroutine need not call it.                    *)
FairSpec == Spec /\ \A th \in Threads : WF_vars(Step(th))

-----------------------------------------------------------------------------

(* Whatever the interleaving, the function a goroutine is about to run     *)
(* exists and was built for the type of the value it runs on: no call      *)
(* reaches the variable f of typeEncoder before it is assigned, and no     *)
(* captured indirect function leads to another type's encoder.             *)
CallsBuilt ==
    \A th \in Threads :
        At(th, "call") =>
            LET e == Top(th).e IN
            /\ builds[e.b].t = Top(th).t
            /\ (e.fn = "indirect" => builds[e.b].wg = 0) =>
                   builds[e.b].f = "set" /\ Len(builds[e.b].kids) = Len(Kids[Top(th).t])

(* Once no goroutine is inside Marshal the cache holds no indirect         *)
(* function: what two goroutines overwrite in each other's entries ends    *)
(* with a real encoder, also after calls that failed.                      *)
QuietCacheIsReal ==
    (\A th \in Threads : stack[th] = <<>>) => \A t \in Types : cache[t].fn # "indirect"

(* Every call of Marshal returns: no goroutine waits for ever on an        *)
(* indirect function, its own or another's.                                *)
MarshalReturns ==
    \A th \in Threads : stack[th] # <<>> ~> stack[th] = <<>>
=============================================================================
