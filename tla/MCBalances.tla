----------------------------- MODULE MCBalances -----------------------------
(* A linear and a coin-second policy, a genesis balance that vests over     *)
(* four seconds with claims two seconds apart, and permissions of periods   *)
(* of two and three seconds that begin at once, soon or late.               *)
EXTENDS Balances
MCPolicies == {[kind |-> "linear", begin |-> 2, cliff |-> 2, duration |-> 4],
               [kind |-> "cdd", seconds |-> 3, start_claim |-> 3],
               [kind |-> "cdd", seconds |-> 0, start_claim |-> 0]}
MCGenesis == [balance |-> 2, last_claim_date |-> 0, policy |-> linear_vesting_policy(1, 1, 4, 2)]
MCTerms == [limit : {2}, period : {2}, periods : {2}, delay : {1, 3}]
           \cup [limit : {1}, period : {3}, periods : {1}, delay : {0}]
=============================================================================
