----------------------------- MODULE MCAdmission -----------------------------
(* Bob must pay under the first version of the settings and is blocked by  *)
(* the second, which asks nobody to pay.  The second may be cut short      *)
(* after saying that nobody need authenticate, the first before it says    *)
(* who must.                                                               *)
EXTENDS Admission, TLC

Open == [content |-> {[maxLength |-> 2, kinds |-> {1}]},
         maxPositiveDelta |-> 1, maxNegativeDelta |-> 0, minPow |-> 0, minPubkeyPow |-> 0,
         whitelist |-> {}, blacklist |-> {}, kindWhitelist |-> {}, kindBlacklist |-> {},
         authentication |-> TRUE, payments |-> FALSE, requireAdmission |-> FALSE,
         fees |-> {}, minBalance |-> 0, sections |-> {"info", "authentication"}]

Paid == [Open EXCEPT !.payments = TRUE,
                     !.fees = {[enabled |-> TRUE, pubkeys |-> {}, kinds |-> {22242}]}]

MCSetting ==
    [default |-> Open,
     paid    |-> Paid,
     noauth  |-> [Paid EXCEPT !.sections = {"info"}],
     noinfo  |-> [Open EXCEPT !.authentication = FALSE, !.sections = {"authentication"}],
     blocked |-> [Open EXCEPT !.blacklist = {"bob"}, !.authentication = FALSE]]

MCEvent ==
    [note |-> [pubkey |-> "bob", kind |-> 1, length |-> 2, created_at |-> 1,
               pow |-> 0, pubkeyPow |-> 0, expires |-> 0],
     auth |-> [pubkey |-> "bob", kind |-> 22242, length |-> 0, created_at |-> 0,
               pow |-> 0, pubkeyPow |-> 0, expires |-> 0]]

(* How a message ended is told by the step that ends it: no action and no  *)
(* invariant tells the stages of Ended apart.                              *)
MCStages == [m \in Msgs |-> IF Free(m) THEN Idle ELSE msg[m]]
MCView == <<settingsVars, now, conn, MCStages, users, issued, sentOn, uses, heard, seen>>

MCSymmetry == Permutations(Conns) \cup Permutations(Msgs)
=============================================================================
