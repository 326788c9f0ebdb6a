------------------------------- MODULE JwtLife ------------------------------
(***************************************************************************)
(* The life of a JSON Web Token: a program builds it (jwt/builder.go), a   *)
(* reader parses it and asks for its claims (jwt/jwt.go), and who has the  *)
(* verified claims validates them as time goes on (jwt/validation.go).     *)
(*                                                                         *)
(* The three share nothing but the token.  What a program that is no       *)
(* longer needed held is reset when the next one takes over, so that it    *)
(* does not multiply the states.                                           *)
(***************************************************************************)
EXTENDS Jwt, JwtValidation

VARIABLE stage   \* "build", "read" or "check"
vars == <<tokenVars, checkVars, stage>>

Init == TokenInit /\ CheckInit /\ stage = "build"

BuildStep ==
    /\ stage = "build" /\ (Build \/ Make)
    /\ UNCHANGED <<checkVars, stage>>

\* The reader gets a message from the wire, or the token of a call of Token.
HandOver ==
    /\ stage = "build" /\ stage' = "read"
    /\ wire.form # "none" \/ tok.form # "none"
    /\ builders' = <<>> /\ heap' = <<>>
    /\ map' = NoMembers /\ nested' = (CHOOSE v \in Plain : TRUE) /\ writes' = 0
    /\ UNCHANGED <<wire, tok, out, checkVars>>

ReadStep ==
    /\ stage = "read" /\ (Damage \/ Read)
    /\ UNCHANGED <<checkVars, stage>>

\* Claims has filled a Claims struct from a token that verified.
ClaimsRead ==
    /\ stage = "read" /\ stage' = "check"
    /\ out.res = "ok" /\ out.verified
    /\ Receive
    /\ wire' = NoMsg /\ tok' = NoToken /\ out' = NoOut
    /\ UNCHANGED <<made, caller>>

CheckStep ==
    /\ stage = "check" /\ CheckNext
    /\ UNCHANGED <<tokenVars, stage>>

Next == BuildStep \/ HandOver \/ ReadStep \/ ClaimsRead \/ CheckStep
Spec == Init /\ [][Next]_vars
=============================================================================
