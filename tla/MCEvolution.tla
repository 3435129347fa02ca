------------------------------ MODULE MCEvolution ------------------------------
(* Evolution for TLC: three releases of a small application. *)
EXTENDS Evolution

Leaf(x) == [leaf |-> x]
Obj(f) == [keys |-> f]

Def(schema, tags) == [schema |-> schema, tags |-> tags]
Model(handles, ignores) == [Account |-> [handles |-> handles, ignores |-> ignores, bindings |-> {"user_id"}]]

Address == Union(<<Struct([code |-> Scalar, street |-> personal(Scalar)], {}), Struct([code |-> Scalar], {})>>)

\* The address comes with the second release, which names the e-mail anew; the third needs a plan, tags it, and tags whom an order is for.
MCCatalogue == <<
  [defs |-> [Registered |-> Def(Struct([id |-> Scalar, email |-> personal(Scalar)], {"email"}), [user_id |-> "id"])],
   models |-> Model({"Registered"}, {})],
  [defs |-> [Registered |-> Def(Struct([id |-> Scalar, contacts |-> RecordOf(personal(Scalar)), home |-> Address], {"contacts", "home"}), [user_id |-> "id"]),
             Ordered |-> Def(Struct([id |-> ArrayOf(Scalar), home |-> Address], {"home"}), [user_id |-> "id"])],
   models |-> Model({"Registered"}, {})],
  [defs |-> [Registered |-> Def(Struct([id |-> Scalar, plan |-> Scalar], {}), [user_id |-> "id", plan |-> "plan"]),
             Ordered |-> Def(Struct([id |-> ArrayOf(Scalar)], {}), [user_id |-> "id"])],
   models |-> Model({"Registered"}, {"Ordered"})]>>

MCData == {
  Obj([id |-> Leaf("u"), email |-> Leaf("e")]), Obj([id |-> Leaf("e"), email |-> Leaf("e")]),
  Obj([id |-> Leaf("u"), contacts |-> Obj([mail |-> Leaf("e")]), home |-> Obj([code |-> Leaf("c"), street |-> Leaf("s")])]),
  Obj([id |-> Leaf("u"), plan |-> Leaf("p")]),
  Obj([id |-> [items |-> <<Leaf("u"), Leaf("v")>>], home |-> Obj([code |-> Leaf("c")])]),
  Obj([id |-> [items |-> <<>>]])}

MCScopes == {{}, {[key |-> "period", value |-> "e"]}}
=============================================================================
