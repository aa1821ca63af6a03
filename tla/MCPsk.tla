------------------------------- MODULE MCPsk -------------------------------
(* Instances of PskAuthenticator for TLC. *)
EXTENDS PskAuthenticator

CONSTANTS a, b

One == {a}
Two == {a, b}

AllMain       == [s \in Stations |-> "main"]
GuestAndWrong == [s \in Stations |-> IF s = a THEN "guest" ELSE "wrong"]
MainAndGuest  == [s \in Stations |-> IF s = a THEN "main" ELSE "guest"]

AllWPA2 == [s \in Stations |-> "WPA2"]
Mixed   == [s \in Stations |-> IF s = a THEN "WPA2" ELSE "WPA"]
MixedRev == [s \in Stations |-> IF s = a THEN "WPA" ELSE "WPA2"]

Events(assoc, leave, timeout, rekey, request, duplicate, overtake, loss) ==
  [k \in Kinds |-> CASE k = "assoc" -> assoc [] k = "leave" -> leave
                     [] k = "timeout" -> timeout [] k = "rekey" -> rekey
                     [] k = "request" -> request [] k = "duplicate" -> duplicate
                     [] k = "overtake" -> overtake [] k = "loss" -> loss]

EventsProof  == Events(2, 0, 1, 0, 2, 1, 1, 0)
EventsDup    == Events(2, 0, 0, 1, 1, 2, 0, 0)
EventsGroup  == Events(2, 1, 2, 1, 0, 0, 0, 1)
EventsEnd    == Events(1, 1, 12, 0, 0, 2, 0, 2)
EventsRekey  == Events(3, 0, 2, 1, 0, 0, 0, 0)
EventsResent == Events(1, 0, 1, 0, 0, 1, 0, 0)
=============================================================================
