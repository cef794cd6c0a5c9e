------------------------------ MODULE MCLedger ------------------------------
(* Model checking of Ledger on a small instance: two initial accounts, both *)
(* builders, and transactions that between them run every native function,  *)
(* fail half way, run out of gas or funds, expire and go wrong in a contract. *)
EXTENDS Ledger

Msg(code, type, from, to, amount) ==
  [code |-> code, type |-> type, from |-> from, to |-> to, amount |-> amount, token |-> code]

Trx(id, gas, payer, limit, msgs) ==
  [id |-> id, gas |-> gas, gaslimit |-> limit, payer |-> payer, auth |-> TRUE,
   exp |-> MaxBlocks, msgs |-> msgs]

\* A new erc20 token, with a negative supply, an erc721 token and a contract, then
\* what uses them: the last mint is more than share_type holds.
Create == Trx("create", 3, "a", 45,
              <<Msg(System, "adderc20", "a", "k", -2), Msg(System, "adderc721", "b", "n", 0),
                Msg(System, "addcontract", "a", "c", 0)>>)
Spread == Trx("spread", 2, "b", 30,
              <<Msg("k", "mint", "a", "a", 63), Msg("k", "transferfrom", "a", "b", 1),
                Msg("k", "mint", "a", "a", 10)>>)
Call == Trx("call", 1, "a", 3, <<Msg("c", "run", "a", "c", 2), Msg("c", "crash", "a", "c", 1),
                                 Msg("c", "run", "a", "c", 4)>>)

\* The erc721 token through its life, and transfers that end with the sender.
Unique == Trx("unique", 0, "none", 0,
              <<Msg("n", "mint", "b", "b", 7), Msg("n", "transferfrom", "b", "a", 7),
                Msg("n", "stopmint", "b", "b", 0), Msg("n", "revoke", "b", "b", 0)>>)
Pay == [Trx("pay", 4, "b", 60, <<Msg(System, "transfer", "b", "a", 3),
                                 Msg(System, "transfer", "a", "a", 1),
                                 Msg(System, "addaccount", "b", "d", 2)>>) EXCEPT !.exp = 1]

\* The second message throws, after the first and itself have changed balances.
Fail == Trx("fail", 5, "a", 50, <<Msg(System, "transfer", "a", "b", 1),
                                  Msg("k", "transferfrom", "a", "b", -1)>>)
Stop == Trx("stop", 6, "b", 60, <<Msg("k", "stopmint", "a", "a", 0), Msg("k", "revoke", "a", "a", 0),
                                  Msg("k", "mint", "a", "a", 1)>>)

\* The payer is a contract, which has no tokens.
NoToken == Trx("notoken", 7, "c", 100, <<Msg(System, "transfer", "a", "b", 1)>>)

MCTrxs == {Create, Spread, Call, Unique, Pay, Fail, Stop, NoToken}
MCAccounts == <<[name |-> "a", staking |-> 10, tokens |-> 20],
                [name |-> "b", staking |-> 60, tokens |-> 0]>>
=============================================================================
