------------------------------ MODULE MCMemory ------------------------------
EXTENDS MemoryHost
CONSTANTS c1, c2, c3, c4

Ask4(kind, ids, over, corrects) ==
  [kind |-> kind, ids |-> ids, over |-> over, corrects |-> corrects]

MCIds == {c1, c2, c3, c4}
MCPreferences == {c1, c2}
\* c1 and c2 say the same.
MCSays == [c \in MCIds |-> IF c = c2 THEN c1 ELSE c]
MCOps == 1..10
MCAsks ==
  << Ask4("ingest", <<c1>>, {}, FALSE),        Ask4("turn", <<c2>>, {}, FALSE),
     Ask4("turn", <<c3>>, {}, TRUE),           Ask4("retract", <<c1>>, {}, FALSE),
     Ask4("consolidate", <<>>, {}, FALSE),     Ask4("ingest", <<c1, c4>>, {c2}, FALSE),
     Ask4("recall", <<>>, {}, FALSE),          Ask4("recall", <<>>, {}, FALSE),
     Ask4("turn", <<c4>>, {}, TRUE),           Ask4("consolidate", <<>>, {}, FALSE) >>
Scene(p, ops) == [provider |-> p, ops |-> ops]
MCScenes == { Scene("embedded", {1, 2, 4, 5}), Scene("embedded", {1, 2, 4, 6}),
              Scene("embedded", {1, 3, 4, 9}), Scene("embedded", {2, 6, 5, 10}),
              Scene("remote", {2, 3, 7, 8}) }

\* For Switches = TRUE: a host that comes back with the other provider.
SwitchScenes == { Scene("remote", {1, 2, 3}) }
=============================================================================
