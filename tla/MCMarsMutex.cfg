\* Two SPUs and one host thread, under fairness of each processor's own steps.
CONSTANTS
  s1 = s1
  s2 = s2
  h1 = h1
  Spus = {s1, s2}
  Ppus = {h1}
  Tickets = 4
  NoProc = NoProc
SPECIFICATION FairSpec
INVARIANTS TypeOK MutualExclusion NoLostUpdate NoLostWakeup
PROPERTIES FirstComeFirstServed EveryTicketServed
