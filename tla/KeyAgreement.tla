---------------------------- MODULE KeyAgreement ----------------------------
(***************************************************************************)
(* What the access point promises about keys, without a protocol: a station *)
(* is secured only after it has proved that it knows a passphrase, every   *)
(* key it is given is newer than the one before, and broadcasts are        *)
(* encrypted with the newest group key or, until that one is taken into    *)
(* use, with the one before.                                               *)
(***************************************************************************)
EXTENDS Naturals

CONSTANTS Stations,
          Knows     \* the stations that know a passphrase of this network

VARIABLES phase,    \* where each station stands
          key,      \* the number of the pairwise key in use with each station
          installs, \* how often a pairwise key has been taken into use
          gen,      \* the generation of the newest group key
          used      \* the generation broadcasts are encrypted with

station == <<phase, key, installs>>
group   == <<gen, used>>

Init == /\ phase = [s \in Stations |-> "out"]
        /\ key = [s \in Stations |-> 0]
        /\ installs = [s \in Stations |-> 0]
        /\ gen = 0 /\ used = 0

Move(s, p, n, i) == /\ phase' = [phase EXCEPT ![s] = p]
                    /\ key' = [key EXCEPT ![s] = n]
                    /\ installs' = [installs EXCEPT ![s] = i]

Join(s)  == Move(s, "unproven", 0, 0)
Leave(s) == phase[s] # "out" /\ Move(s, "out", 0, 0)
Prove(s) == /\ phase[s] = "unproven" /\ s \in Knows
            /\ Move(s, "proved", key[s], installs[s])

\* The key of a handshake, the first one or a later one, is taken into use:
\* never the one that is in use already.
Secure(s) == /\ phase[s] \in {"proved", "secured"} /\ s \in Knows
             /\ key'[s] > key[s]
             /\ Move(s, "secured", key'[s], installs[s] + 1)

StationStep == \E s \in Stations : Join(s) \/ Prove(s) \/ Secure(s) \/ Leave(s)

Generate == gen' = gen + 1 /\ used' = used
Use      == used' = gen /\ gen' = gen

\* A step of a station and a step of the group key may happen together.
Next == /\ StationStep \/ UNCHANGED station
        /\ Generate \/ Use \/ UNCHANGED group

Spec == Init /\ [][Next]_<<phase, key, installs, gen, used>>
=============================================================================
