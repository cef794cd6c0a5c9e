-------------------------------- MODULE Tokens --------------------------------
(***************************************************************************)
(* The native contracts that hold tokens (native_contract/xmax_contract.cpp) *)
(* and how one message of a transaction runs them                          *)
(* (chain/transaction_context_xmax.cpp), as operators on the contents s of *)
(* the database:                                                           *)
(*   s.acct  the type of each account,                                     *)
(*   s.main  main_token of each xmx_token_object,                          *)
(*   s.erc   the erc20 and erc721 tokens,                                  *)
(*   s.hold  the balances of erc20 tokens, under token and owner,          *)
(*   s.nft   the owner of each erc721 token, under token and id,           *)
(*   s.data  how often contracts changed their tables,                     *)
(*   s.msgs  the counter of global_msg_status_object.                      *)
(* A message is [code, type, from, to, amount, token]; amount is the id for *)
(* an erc721.  A message has the scopes and authorizations it needs.       *)
(*                                                                         *)
(* An operator that runs code returns [ok, s]: when ok is FALSE it threw,   *)
(* and s is what it had changed by then.                                   *)
(***************************************************************************)
EXTENDS Integers, Sequences

CONSTANTS GasRange,    \* values of usedgas, 2^64 in the code
          ShareHalf,   \* the values of share_type below zero, 2^63 in the code
          TestFolded   \* does the compiler make b >= 0 of SafeMath::add's c >= a?

ASSUME TokensAssumption ==
  GasRange \in Nat \ {0} /\ ShareHalf \in Nat \ {0} /\ TestFolded \in BOOLEAN

ShareType == -ShareHalf..(ShareHalf - 1)

\* The types of the amounts of a message: deposits and amounts of erc20 tokens are
\* signed, those of main tokens and instructions are not.
AmountOK(m) ==
  m.amount \in IF m.type \in {"addaccount", "adderc20", "mint", "transferfrom"}
               THEN ShareType ELSE Nat

Returns(s) == [ok |-> TRUE, s |-> s]
Throws(s) == [ok |-> FALSE, s |-> s]

\* f with x mapped to v, also when x is new.
With(f, x, v) == [y \in DOMAIN f \cup {x} |-> IF y = x THEN v ELSE f[y]]

\* f after v went from a to b, one after the other.
Moved(f, a, b, v) == LET e == [f EXCEPT ![a] = @ - v] IN [e EXCEPT ![b] = @ + v]

\* A sum or difference of share_type.  Overflow is undefined: the processor wraps,
\* and the compiler may drop a test that only overflow can fail.
Wrap(v) == ((v + ShareHalf) % (2 * ShareHalf)) - ShareHalf

\* The assertion of SafeMath::add.  That of sub is weaker than what
\* xmax_erc20_transferfrom asserts before it.
CanAdd(a, b) == IF TestFolded THEN b >= 0 ELSE Wrap(a + b) >= a

-----------------------------------------------------------------------------
\* xmax_system_addaccount: the account is created before the funds are checked.
AddAccount(m, s) ==
  LET made == [s EXCEPT !.acct = With(@, m.to, "personal")]
  IN IF m.to \in DOMAIN s.acct \/ m.amount <= 0 THEN Throws(s)
     ELSE IF m.from \notin DOMAIN s.main \/ s.main[m.from] < m.amount THEN Throws(made)
     ELSE Returns([made EXCEPT !.main = With([s.main EXCEPT ![m.from] = @ - m.amount],
                                             m.to, m.amount)])

\* xmax_system_addcontract, with code that initializes.
AddContract(m, s) ==
  IF m.to \in DOMAIN s.acct THEN Throws(s)
  ELSE Returns([s EXCEPT !.acct = With(@, m.to, "contract")])

\* xmax_system_adderc20, xmax_system_adderc721
AddErc(m, s, std) ==
  LET made == [s EXCEPT !.acct = With(@, m.to, std),
                        !.erc = With(@, m.to, [std |-> std, owner |-> m.from,
                                               supply |-> m.amount, stopmint |-> FALSE,
                                               revoked |-> FALSE])]
  IN IF m.to \in DOMAIN s.acct THEN Throws(s)
     ELSE IF std = "erc721" THEN Returns(made)
     ELSE Returns([made EXCEPT !.hold = With(@, <<m.to, m.from>>, m.amount)])

\* Mutant: both balances are read before one is written.
TransferStale(m, s) ==
  IF m.amount = 0 \/ ~{m.from, m.to} \subseteq DOMAIN s.main \/ s.main[m.from] < m.amount
  THEN Throws(s)
  ELSE Returns([s EXCEPT !.main[m.from] = s.main[m.from] - m.amount,
                         !.main[m.to] = s.main[m.to] + m.amount])

\* xmax_system_transfer
Transfer(m, s) ==
  IF m.amount = 0 \/ ~{m.from, m.to} \subseteq DOMAIN s.main \/ s.main[m.from] < m.amount
  THEN Throws(s)
  ELSE Returns([s EXCEPT !.main = Moved(s.main, m.from, m.to, m.amount)])

\* xmax_system_lock: nothing creates the resource_token_object it modifies.
Lock(m, s) == Throws(s)

\* validate_token_not_revoke, validate_token_canmint, for a token of a standard.
Usable(m, s, std) ==
  m.token \in DOMAIN s.erc /\ s.erc[m.token].std = std /\ ~s.erc[m.token].revoked
Mintable(m, s, std) == Usable(m, s, std) /\ ~s.erc[m.token].stopmint

\* xmax_erc20_mint: the balance is changed before the supply.
Mint20(m, s) ==
  LET own == <<m.token, s.erc[m.token].owner>>
      paid == [s EXCEPT !.hold[own] = Wrap(@ + m.amount)]
  IN IF ~Mintable(m, s, "erc20") \/ own \notin DOMAIN s.hold THEN Throws(s)
     ELSE IF ~CanAdd(s.hold[own], m.amount) THEN Throws(s)
     ELSE IF ~CanAdd(s.erc[m.token].supply, m.amount) THEN Throws(paid)
     ELSE Returns([paid EXCEPT !.erc[m.token].supply = Wrap(@ + m.amount)])

\* xmax_erc20_transferfrom: the receiving account is created first, a balance
\* cannot be emptied, and the sender has paid when a negative amount throws.
TransferFrom20(m, s) ==
  LET from == <<m.token, m.from>>
      to == <<m.token, m.to>>
      made == IF to \in DOMAIN s.hold THEN s ELSE [s EXCEPT !.hold = With(@, to, 0)]
      paid == [made EXCEPT !.hold[from] = Wrap(@ - m.amount)]
  IN IF ~Usable(m, s, "erc20") \/ from \notin DOMAIN s.hold THEN Throws(s)
     ELSE IF made.hold[from] <= m.amount THEN Throws(made)
     ELSE IF ~CanAdd(paid.hold[to], m.amount) THEN Throws(paid)
     ELSE Returns([paid EXCEPT !.hold[to] = Wrap(@ + m.amount)])

\* xmax_erc721_mint
Mint721(m, s) ==
  IF ~Mintable(m, s, "erc721") \/ <<m.token, m.amount>> \in DOMAIN s.nft THEN Throws(s)
  ELSE Returns([s EXCEPT !.nft = With(@, <<m.token, m.amount>>, s.erc[m.token].owner)])

\* xmax_erc721_transferfrom
TransferFrom721(m, s) ==
  LET id == <<m.token, m.amount>>
  IN IF ~Usable(m, s, "erc721") \/ id \notin DOMAIN s.nft THEN Throws(s)
     ELSE IF s.nft[id] # m.from THEN Throws(s)
     ELSE Returns([s EXCEPT !.nft[id] = m.to])

\* xmax_erc20_stopmint, xmax_erc721_stopmint
StopMint(m, s, std) ==
  IF ~Mintable(m, s, std) THEN Throws(s)
  ELSE Returns([s EXCEPT !.erc[m.token].stopmint = TRUE])

\* xmax_erc20_revoke, xmax_erc721_revoke
Revoke(m, s, std) ==
  IF ~Usable(m, s, std) THEN Throws(s)
  ELSE Returns([s EXCEPT !.erc[m.token].revoked = TRUE])

-----------------------------------------------------------------------------
\* get_native_scope
NativeScope(type) == IF type \in {"personal", "system"} THEN "system" ELSE type

\* The functions that register_handlers registers for a scope, without those about
\* builders, votes and code.
FunctionsOf(scope) ==
  CASE scope = "system" -> {"addaccount", "addcontract", "adderc20", "adderc721",
                            "transfer", "lock"}
    [] scope \in {"erc20", "erc721"} -> {"mint", "stopmint", "revoke", "transferfrom"}

\* find_native_handler and the call.
Handle(scope, m, s) ==
  CASE m.type = "addaccount" -> AddAccount(m, s)
    [] m.type = "addcontract" -> AddContract(m, s)
    [] m.type \in {"adderc20", "adderc721"} ->
         AddErc(m, s, IF m.type = "adderc20" THEN "erc20" ELSE "erc721")
    [] m.type = "transfer" -> Transfer(m, s)
    [] m.type = "lock" -> Lock(m, s)
    [] m.type = "mint" -> IF scope = "erc20" THEN Mint20(m, s) ELSE Mint721(m, s)
    [] m.type = "transferfrom" ->
         IF scope = "erc20" THEN TransferFrom20(m, s) ELSE TransferFrom721(m, s)
    [] m.type = "stopmint" -> StopMint(m, s, scope)
    [] m.type = "revoke" -> Revoke(m, s, scope)

\* The accounts that the handler asks to notify, in order.
Recipients(m, s) ==
  CASE m.type = "transfer" -> <<m.to, m.from>>
    [] m.type = "transferfrom" -> <<m.from, m.to>>
    [] m.type \in {"mint", "stopmint"} -> <<s.erc[m.token].owner>>
    [] OTHER -> <<>>

\* require_recipient: is the i-th of list r notified?  No account is twice, and
\* not the code of the message.
Notified(m, r, i) == r[i] # m.code /\ \A j \in 1..(i - 1) : r[j] # r[i]

\* The gas of one native call.
GasStep(m) == IF m.type = "addaccount" THEN 0 ELSE 5

\* usedgas += gas
Plus(used, gas) == (used + gas) % GasRange

\* The end of exec_one_message.
Receipted(s) == [s EXCEPT !.msgs = @ + 1]

\* The instructions that a contract may execute.
InstructionLimit(run) == IF run.price = 0 THEN 1000 ELSE run.limit \div run.price

\* exec_one_message for a contract, whose code changes a table twice and executes as
\* many instructions as the amount says.  What it throws ("crash" does, and so does
\* the limit) is logged and forgotten, with its first change in place and without gas.
RunContract(m, run) ==
  LET count == IF m.amount < 0 THEN 0 ELSE m.amount
      throws == m.type = "crash" \/ count > InstructionLimit(run)
      s == Receipted([run.s EXCEPT !.data = @ + (IF throws THEN 1 ELSE 2)])
  IN [run EXCEPT !.s = s, !.gas = IF throws THEN @ ELSE Plus(@, count * run.price)]

\* The gas of a native call; a message that a recipient is notified of is free.
Charged(m, run, is_notify) ==
  IF is_notify THEN run
  ELSE [run EXCEPT !.gas = Plus(@, GasStep(m) * run.price),
                   !.ok = Plus(run.gas, GasStep(m) * run.price) <= run.limit]

\* What the handler did, with the receipt unless it threw.
After(run, res) == [run EXCEPT !.ok = res.ok, !.s = IF res.ok THEN Receipted(res.s) ELSE res.s]

\* exec_one_message for the native functions of a scope.
RunNative(scope, m, run, is_notify) ==
  IF ~run.ok THEN run
  ELSE IF m.type \in FunctionsOf(scope) THEN After(run, Handle(scope, m, run.s))
  ELSE IF is_notify THEN [run EXCEPT !.s = Receipted(@)]
  ELSE [run EXCEPT !.ok = FALSE]

\* exec_one_message on account a.  run is [ok, s, gas, price, limit]: gas is
\* usedgas, price the gas of the transaction and limit its gaslimit.
ExecOne(a, m, run, is_notify) ==
  IF a \notin DOMAIN run.s.acct THEN [run EXCEPT !.ok = FALSE]
  ELSE IF run.s.acct[a] = "contract" THEN RunContract(m, run)
  ELSE RunNative(NativeScope(run.s.acct[a]), m, Charged(m, run, is_notify), is_notify)

\* One turn of the loop of exec_message over the recipients r.
NotifyOne(m, r, run, i) ==
  IF run.ok /\ Notified(m, r, i) THEN ExecOne(r[i], m, run, TRUE) ELSE run

\* The loop of exec_message over the recipients; contracts notify nobody here.
NotifyAll(m, run) ==
  LET r == Recipients(m, run.s)
      after[i \in 0..Len(r)] == IF i = 0 THEN run ELSE NotifyOne(m, r, after[i - 1], i)
  IN IF ~run.ok \/ run.s.acct[m.code] = "contract" THEN run ELSE after[Len(r)]

\* exec_message; contracts send no inline messages here.
ExecMessage(run, m) ==
  IF run.ok THEN NotifyAll(m, ExecOne(m.code, m, run, FALSE)) ELSE run

\* The messages ms, one after the other.
ExecAll(ms, run) ==
  LET after[i \in 0..Len(ms)] == IF i = 0 THEN run ELSE ExecMessage(after[i - 1], ms[i])
  IN after[Len(ms)]

=============================================================================
