------------------------------ MODULE WireTypes ------------------------------
(****************************************************************************)
(* The vocabulary of the tables of the REST clients and of the servers.     *)
(*                                                                          *)
(* A model of the JavaScript client or a struct of a Go server is a         *)
(* function from the keys of its JSON object to fields. A field says under  *)
(* which property the value is kept, of which kind it is, for "model" of    *)
(* which model, and in how many arrays it is wrapped. "always" marks a Go   *)
(* field without omitempty.                                                 *)
(****************************************************************************)

Field(prop, kind, of, deep) ==
    [prop |-> prop, kind |-> kind, of |-> of, deep |-> deep, always |-> FALSE]

Plain(keys, kind, deep) == [k \in keys |-> Field(k, kind, "", deep)]

Words(keys)        == Plain(keys, "text", 0)
TextLists(keys)    == Plain(keys, "text", 1)
Flags(keys)        == Plain(keys, "flag", 0)
Dicts(keys)        == Plain(keys, "dict", 0)
Numbers(keys)      == Plain(keys, "float", 0)
NumberLists(keys)  == Plain(keys, "float", 1)
NumberTables(keys) == Plain(keys, "float", 2)

(* Go tells integers from floating point numbers, JavaScript does not. *)
Ints(keys)        == Plain(keys, "int", 0)
Floats(keys)      == Numbers(keys)
FloatLists(keys)  == NumberLists(keys)
FloatTables(keys) == NumberTables(keys)

One(key, model)  == [k \in {key} |-> Field(k, "model", model, 0)]
Many(key, model) == [k \in {key} |-> Field(k, "model", model, 1)]

(* The client may keep the value of a key under another property name. *)
As(key, prop, fields) == [k \in {key} |-> fields[prop]]

Always(keys) == [k \in keys |-> [Field(k, "text", "", 0) EXCEPT !.always = TRUE]]

(* What a body holds: nothing, one model, or a list of one model. *)
Nothing       == [of |-> "", deep |-> 0]
Of(model)     == [of |-> model, deep |-> 0]
ListOf(model) == [of |-> model, deep |-> 1]

(* An operation of a client: the request it makes, the parameters it throws *)
(* without, the model of its body and the model its answer is converted to. *)
Op(verb, path, needs, takes, gives) ==
    [verb |-> verb, path |-> path, needs |-> needs, takes |-> takes, gives |-> gives]

(* A route of a server: the request it matches, the struct its handler      *)
(* decodes the body into and the struct it encodes the answer from.         *)
Route(verb, path, takes, gives) ==
    [verb |-> verb, path |-> path, takes |-> takes, gives |-> gives]
=============================================================================
