-------------------------- MODULE MC_DebugSession --------------------------
EXTENDS DebugSession

CONSTANTS tab, other, agent

Quiet == [pages |-> {tab}, typed |-> 1, written |-> 1, saves |-> 0, restarts |-> 0,
          late |-> FALSE, supervised |-> TRUE]

\* A page and an agent that edit a document and save it, or outlive the server; two
\* pages; and a page that looks on.
Plans == { [Quiet EXCEPT !.typed = 2, !.saves = 1],
           [Quiet EXCEPT !.typed = 2, !.restarts = 1],
           [Quiet EXCEPT !.pages = {tab, other}, !.written = 0],
           [Quiet EXCEPT !.typed = 0, !.written = 3] }
=============================================================================
