----------------------------- MODULE MCPayment -----------------------------
(***************************************************************************)
(* Instances of Payment for TLC.  Contract 1 has an amount type "asset", a *)
(* data type "token" and the rights "issue" and "burn"; contract 2 holds   *)
(* state that may sit on the same outputs.  The wallet owns some of the    *)
(* outputs 1 to 3; output 4 is never its own, and is where allocations     *)
(* are that a situation is not about.                                      *)
(***************************************************************************)
EXTENDS Payment, TLC

CONSTANTS a1, a2, a3, d1, d2, v1, v2, b1, b2

MCOpouts == {a1, a2, a3, d1, d2, v1, v2, b1, b2}
MCContractOf == [o \in MCOpouts |-> IF o \in {b1, b2} THEN 2 ELSE 1]
MCTypeOf == [o \in MCOpouts |-> CASE o \in {a1, a2, a3} -> "asset" [] o \in {d1, d2} -> "token"
                                  [] o \in {v1, v2} -> "issue" [] o \in {b1, b2} -> "burn"]
MCTypes == {"asset", "token", "issue", "burn"}
MCKindOf == ("asset" :> "amount") @@ ("token" :> "data")
              @@ ("issue" :> "void") @@ ("burn" :> "void")

Invoice(state, amount, name) ==
    [contract |-> 1, known |-> TRUE, schema_ok |-> TRUE, chain_ok |-> TRUE, expired |-> FALSE,
     state |-> state, amount |-> amount, name |-> name]

Flawed ==
    LET good == Invoice("amount", 2, None) IN
    {[good EXCEPT !.contract = None], [good EXCEPT !.known = FALSE], [good EXCEPT !.schema_ok = FALSE],
     [good EXCEPT !.chain_ok = FALSE], [good EXCEPT !.expired = TRUE],
     [good EXCEPT !.state = None], [good EXCEPT !.state = None, !.expired = TRUE]}

\* The allocations in `near` on any outputs, those in `varied` with any of
\* `values`.
Situation(invoices, near, varied, values) ==
    [invoices |-> invoices,
     seals |-> {[o \in MCOpouts |-> IF o \in near THEN f[o] ELSE 4] : f \in [near -> {1, 2, 3}]},
     values |-> {[o \in MCOpouts |-> IF o \in varied THEN f[o] ELSE 1] : f \in [varied -> values]},
     wallets |-> {{1, 2, 3}, {1, 2}}]

\* Fungible payments: three allocations of the asset, one of another type,
\* one of another contract.
Fungible == Situation({Invoice("amount", n, None) : n \in {1, 3, 4, 6}},
                      {a1, a2, a3, d1, b1}, {a1, a2, a3}, {1, 2, 3})

\* An invoice for zero.
Zero == Situation({Invoice("amount", 0, "asset")}, {a1, d1}, {a1}, {1})

\* Data and rights: two tokens, two rights and two of another contract.
Other(invoices) == Situation(invoices, {d1, d2, v1, v2, b1, b2}, {d1, d2}, {1, 2})
OtherInvoices == {Invoice("data", 1, None), Invoice("void", 0, "issue"),
                  Invoice("void", 0, "burn"), Invoice("void", 0, None)}

MCSituations ==
    {Fungible, Zero, Other(OtherInvoices), Situation(Flawed, {a1, b1}, {a1}, {1, 2})}

Rest == {Other({Invoice("data", 1, None), Invoice("void", 0, "issue")})}
=============================================================================
