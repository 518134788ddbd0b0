---------------------------- MODULE WireAgreement ----------------------------
(****************************************************************************)
(* What the REST clients and the servers, generated apart, must agree on    *)
(* for documents to survive the way between them. It is said of one table,  *)
(* one operation and one key at a time, so that it can be looked up; what   *)
(* follows for calls and documents is for RestCall.                         *)
(****************************************************************************)
EXTENDS Integers

NoOp    == "none"
NoModel == ""

(* The fields of a client's models, by the properties they are kept under.  *)
Properties(models) ==
    [m \in DOMAIN models |->
       [p \in {models[m][k].prop : k \in DOMAIN models[m]} |->
          CHOOSE f \in {models[m][k] : k \in DOMAIN models[m]} : f.prop = p]]

(* A field of a model and that of a struct. JavaScript has one type of      *)
(* numbers.                                                                 *)
SameField(f, g) ==
    /\ f.of = g.of /\ f.deep = g.deep /\ f.deep \in Nat
    /\ f.kind \in {"text", "int", "float", "flag", "dict", "model"}
    /\ f.kind = g.kind \/ (f.kind = "float" /\ g.kind = "int")

(* These models have the keys of their structs, and what they are made of   *)
(* is among them.                                                           *)
Mirror(models, structs, types) ==
    \A m \in types :
        /\ m \in DOMAIN models /\ m \in DOMAIN structs
        /\ DOMAIN models[m] = DOMAIN structs[m]
        /\ \A k \in DOMAIN models[m] :
              /\ SameField(models[m][k], structs[m][k])
              /\ models[m][k].kind = "model" => models[m][k].of \in types

(* These models keep every key under its own name.                          *)
OwnNames(models, types) ==
    \A m \in types : \A k \in DOMAIN models[m] : models[m][k].prop = k

(* An operation has a route of its own, to the handler of its name, which   *)
(* reads and writes the bodies that the client writes and reads.            *)
SameOperation(client, server, o) ==
    LET op    == client.operations[o]
        route == server.routes[o]
    IN  /\ o \in DOMAIN server.routes
        /\ \A h \in DOMAIN server.routes :
              (server.routes[h].verb = op.verb /\ server.routes[h].path = op.path) <=> h = o
        /\ op.gives.of # NoModel => op.gives = route.gives /\ op.gives.of \in DOMAIN client.models
        /\ op.takes.of # NoModel => op.takes.of = route.takes.of

(* sent: the models that go to a server, by client.                         *)
ClientAgrees(client, server, sent) ==
    /\ client.base = server.base
    /\ Mirror(client.models, server.structs, DOMAIN client.models)
    /\ Mirror(client.models, server.structs, sent) /\ OwnNames(client.models, sent)
    /\ \A o \in DOMAIN client.operations :
          /\ SameOperation(client, server, o)
          /\ client.operations[o].takes.of \in sent \union {NoModel}

(* A talk loads, or saves, or does both with one type of documents.         *)
TalkAgrees(clients, servers, sent, t) ==
    /\ t.from \in DOMAIN clients /\ t.into \in DOMAIN clients
    /\ t.load # NoOp => /\ t.load \in DOMAIN clients[t.from].operations
                        /\ clients[t.from].operations[t.load].gives.of # NoModel
    /\ t.save # NoOp => t.save \in DOMAIN clients[t.into].operations
    /\ t.load # NoOp \/ t.save # NoOp
    /\ (t.load # NoOp /\ t.save # NoOp) =>
          LET body == clients[t.from].operations[t.load].gives
          IN  /\ t.load # t.save /\ body.deep = 0 /\ body.of \in sent[t.from]
              /\ clients[t.into].operations[t.save].takes.of = body.of
              /\ servers[t.from].structs = servers[t.into].structs

TablesAgree(clients, servers, talks, sent) ==
    /\ DOMAIN clients = DOMAIN servers
    /\ \A c \in DOMAIN clients : ClientAgrees(clients[c], servers[c], sent[c])
    /\ \A t \in talks : TalkAgrees(clients, servers, sent, t)
==============================================================================
