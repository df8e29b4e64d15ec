------------------------------ MODULE MCCrosslink ------------------------------
(* An instance of Crosslink: one app, from its start to its end, with calls *)
(* between each two of the page, the node and the app.                      *)
EXTENDS Crosslink

app == "app"

(* name, from, to, path, after *)
Table == {
    <<"boot", app, Page, <<"cri", "container", "ready">>, {}>>,
    <<"ready", app, Node, <<"node", "api", "core", "ready">>, {}>>,
    <<"setup", Node, app, <<"application", "api", "core", "setup">>, {"ready"}>>,
    <<"pull", Node, Page, <<"cri", "pullImage">>, {"setup"}>>,
    <<"list", Page, Node, <<"node", "resource", "listNode">>, {}>>,
    <<"info", app, Node, <<"node", "system", "info">>, {"setup", "list"}>>,
    <<"term", Page, app, <<"container", "term">>, {"list"}>>,
    <<"finished", app, Page, <<"cri", "container", "finished">>, {}>>}

MCCalls == {r[1] : r \in Table}

Row(c) == CHOOSE r \in Table : r[1] = c
MCFrom == [c \in Calls |-> Row(c)[2]]
MCTo == [c \in Calls |-> Row(c)[3]]
MCPath == [c \in Calls |-> Row(c)[4]]
MCAfter == [c \in Calls |-> Row(c)[5]]
MCBoot == [a \in Apps |-> "boot"]
MCClosing == [a \in Apps |-> "finished"]
==============================================================================
