----------------------------- MODULE MCExecPage -----------------------------
(****************************************************************************)
(* Sessions of the execution page.                                          *)
(****************************************************************************)
EXTENDS EventPanes, TLC

Playing(c) == [up |-> TRUE, active |-> c, pods |-> {"Running"}]
Empty    == [up |-> TRUE, active |-> "none", pods |-> {}]
None     == [up |-> FALSE, active |-> "none", pods |-> {}]

MCSessions ==
    [switch |-> [start |-> [a |-> Playing("x"), b |-> Playing("y")], open |-> "a",
                 listed |-> {"a", "b"}, may |-> {"select", "terminate"},
                 reads |-> {"active"}, moves |-> 2, panes |-> {}, tries |-> 0],
     event  |-> [start |-> [a |-> Playing("x"), b |-> Empty], open |-> "a",
                 listed |-> {"a", "b"}, may |-> {"select", "event"},
                 reads |-> {"active"}, moves |-> 2, panes |-> {}, tries |-> 0],
     create |-> [start |-> [a |-> Playing("x"), b |-> None], open |-> "a",
                 listed |-> {"a", "b"}, may |-> {"create", "terminate", "lose"},
                 reads |-> {"active"}, moves |-> 2, panes |-> {}, tries |-> 0],
     first  |-> [start |-> [a |-> None, b |-> None], open |-> "none",
                 listed |-> {}, may |-> {"create", "activate"},
                 reads |-> {"list", "active"}, moves |-> 2, panes |-> {}, tries |-> 0],
     delete |-> [start |-> [a |-> Playing("x"), b |-> Playing("x")], open |-> "a",
                 listed |-> {"a", "b"}, may |-> {"delete", "select", "lose"},
                 reads |-> {"active"}, moves |-> 2, panes |-> {}, tries |-> 0],
     deploy |-> [start |-> [a |-> Empty, b |-> None], open |-> "a",
                 listed |-> {"a"}, may |-> {"activate"},
                 reads |-> {"active", "pods"}, moves |-> 1, panes |-> {}, tries |-> 0],
     tab    |-> [start |-> [a |-> Playing("x"), b |-> Empty], open |-> "a",
                 listed |-> {"a", "b"}, may |-> {"visibility", "page", "reload", "select"},
                 reads |-> {"active"}, moves |-> 3, panes |-> {}, tries |-> 0],
     hand   |-> [start |-> [a |-> Playing("x"), b |-> Playing("y")], open |-> "a",
                 listed |-> {"a", "b"}, may |-> {"select", "event"},
                 reads |-> {}, moves |-> 2, panes |-> {"mobility"}, tries |-> 0],
     chars  |-> [start |-> [a |-> Playing("x"), b |-> Playing("y")], open |-> "a",
                 listed |-> {"a", "b"}, may |-> {"select", "event"},
                 reads |-> {}, moves |-> 2, panes |-> {"nc"}, tries |-> 0],
     boxes  |-> [start |-> [a |-> Playing("x"), b |-> Playing("y")], open |-> "a",
                 listed |-> {"a", "b"}, may |-> {"select", "lose"},
                 reads |-> {}, moves |-> 1, panes |-> {"auto"}, tries |-> 2],
     remade |-> [start |-> [a |-> Playing("x"), b |-> None], open |-> "a",
                 listed |-> {"a", "b"}, may |-> {"create", "delete"},
                 reads |-> {}, moves |-> 1, panes |-> {"auto"}, tries |-> 1],
     file   |-> [start |-> [a |-> Playing("x"), b |-> Playing("y")], open |-> "a",
                 listed |-> {"a", "b"}, may |-> {"terminate"},
                 reads |-> {}, moves |-> 1, panes |-> {"replay"}, tries |-> 3],
     turned |-> [start |-> [a |-> Playing("x"), b |-> Playing("y")], open |-> "a",
                 listed |-> {"a", "b"}, may |-> {"select"},
                 reads |-> {}, moves |-> 1, panes |-> {"replay"}, tries |-> 2]]

Elem(n, t)  == [name |-> n, type |-> t, group |-> FALSE]
Member(n)   == [name |-> n, type |-> "EDGE APPLICATION", group |-> TRUE]
MCElements ==
    [x |-> {Elem("ue1", "UE"), Elem("poa1", "POA"), Elem("fog1", "FOG"), Elem("app1", "EDGE APPLICATION"),
            Member("app2"), Elem("zone1", "ZONE"), Elem("edge1", "EDGE")},
     y |-> {Elem("ue1", "UE"), Elem("poa2", "POA CELLULAR")}]
=============================================================================
