---------------------------- MODULE MCAccessPoint ----------------------------
EXTENDS AccessPoint, TLC

Symmetry == Permutations(Slots) \cup Permutations(Addrs)

\* Bounds.  Nothing is explored after the lookup cache was left on a freed
\* entry.  After del_sta was overtaken, or the interface was opened under a
\* command that is to change its entry next, only the rest of the command is
\* explored; the race of a MIC handler is explored without commands.
Explored ==
  /\ ~stale
  /\ raced => pc.op \in {"del_sta", "free", "disconnect"}
  /\ late => pc = Idle

\* Commands and MIC failures are explored apart, and the first failure comes
\* in the middle of no race of a MIC handler.  What countermeasures do to the
\* entry a command is at, a deauthentication does as well.
Undisturbed ==
  LET Begins == pc = Idle /\ pc' # Idle
      Fails == mic'.MIC_check_timer /\ ~mic.MIC_check_timer
  IN  /\ Begins => mic = NoTimers /\ ~late
      /\ Fails => pc = Idle /\ ~late
=============================================================================
