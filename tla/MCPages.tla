------------------------------ MODULE MCPages ------------------------------
(* Two names with short labels, two accounts, and histories in which names *)
(* are registered (also in vain), listed, cancelled and sold while a page  *)
(* is open.                                                                *)
EXTENDS PageLoads

CONSTANTS a, b

row(kind, n, u) == [kind |-> kind, name |-> n, by |-> u, ok |-> TRUE, dated |-> TRUE,
                    quote |-> [currency |-> "Arch", price |-> n]]
failed(r) == [r EXCEPT !.ok = FALSE]
undated(r) == [r EXCEPT !.dated = FALSE]
at(r, c, p) == [r EXCEPT !.quote = [currency |-> c, price |-> p]]

MCNames == 1 .. 3
MCLabelLength == [n \in MCNames |-> IF n = 3 THEN 5 ELSE 2]
\* Balances: the account b is richer, those of a change with every row.
funds_of(n) == [k \in 0 .. n |->
    (a :> [Arch |-> IF k % 2 = 0 THEN 30 ELSE 15, Btc |-> k]) @@ (b :> [Arch |-> 100, Btc |-> 0])]
history(start, views, rows) ==
    [start |-> start, views |-> views, rows |-> rows, funds |-> funds_of(Len(rows))]

MCHistories == {
    \* An empty registry; a second registration of the same name fails.
    history(0, Views \ {"name"}, <<row("Register", 1, a), failed(row("Register", 1, b))>>),
    \* Balances change while an offer is typed.
    history(1, {"name"}, <<row("Register", 1, b), row("SetRecord", 1, b)>>),
    \* The window moves on, past a registration that may not be ingested yet.
    history(4, {"search", "explore"},
            <<row("Register", 1, a), row("Register", 3, b), row("SetRecord", 1, a),
              row("Register", 2, a), failed(row("Register", 3, a))>>),
    \* A book in both currencies changes while it is read.
    history(7, {"explore", "mine"},
            <<undated(row("Register", 1, a)), row("Register", 2, a),
              row("Register", 3, a), at(row("ListName", 1, a), "Arch", 31),
              at(row("ListName", 2, a), "Btc", 4), at(row("ListName", 3, a), "Arch", 19),
              row("CancelListing", 1, a), undated(at(row("ListName", 1, a), "Arch", 12)),
              row("BuyName", 2, b)>>) }
MCSessions == {[wallet |-> a, known |-> {a, b}]}
MCDecimals == [Arch |-> 2, Btc |-> 1]
MCAmounts == [n : {0, 5, 70}, digits : 0 .. 2]
=============================================================================
