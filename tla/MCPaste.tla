------------------------------- MODULE MCPaste -------------------------------
(* Paste with a clean body and a leaking one, and every body of size one.   *)
(* Of the requests in flight, which are alike, only one carries a body that *)
(* leaks.  A count of the quota fails only while nothing that leaks is      *)
(* about and nothing has been edited, and then the clock stands.            *)
EXTENDS Paste

CONSTANTS clean, leak, h1

MCSize == [b \in Body |-> 1]

Carries(p) == pc[p] \in {"check", "insert", "edit"} /\ req[p].row.body \in Leaking

OneLeaks == \A p \in Handler : Carries(p) => p = h1

MissesApart ==
    (\E a \in Account : missed[a] > 0) =>
        /\ now = 0
        /\ \A p \in Handler : ~Carries(p)
        /\ \A id \in PasteId : Live(id) => past[id] = {} /\ paste[id].body = clean

PasteSpec == Init /\ [][Next /\ (OneLeaks /\ MissesApart)']_vars /\ WF_vars(Reap)
=============================================================================
