---------------------------- MODULE ShareContract ----------------------------
(***************************************************************************)
(* What a public link promises its owner and its visitors, whatever the    *)
(* viewer, the reconciler and the gateway do to keep the promise.  A share *)
(* is offered once and ends once; its link binds one device at most; a     *)
(* visit is granted to that device alone and only while the share is       *)
(* offered.  What a granted visit is then shown is left open.              *)
(***************************************************************************)
CONSTANTS Shares, Devices, NoDevice   \* NoDevice is none of Devices

VARIABLES
  status,   \* share -> none, offered or ended
  bound,    \* share -> the device its link was consumed by
  grants    \* the visits under way: <<share, device>>

vars == <<status, bound, grants>>

TypeOK == /\ status \in [Shares -> {"none", "offered", "ended"}]
          /\ bound \in [Shares -> Devices \cup {NoDevice}]
          /\ grants \subseteq Shares \X Devices

Init == /\ status = [s \in Shares |-> "none"]
        /\ bound = [s \in Shares |-> NoDevice]
        /\ grants = {}

\* Shares move forward only; a revocation or the clock may end several at once,
\* and a creation that waited too long makes a share that is over already.
Move == /\ \A s \in Shares : status'[s] # status[s] =>
              \/ status[s] = "none"
              \/ status[s] = "offered" /\ status'[s] = "ended"
        /\ status' \in [Shares -> {"none", "offered", "ended"}]
        /\ UNCHANGED <<bound, grants>>

\* The first device to present the link gets it, for good.
Bind == /\ \E s \in Shares, d \in Devices :
             /\ bound[s] = NoDevice /\ status[s] # "none"
             /\ bound' = [bound EXCEPT ![s] = d]
        /\ UNCHANGED <<status, grants>>

Grant == /\ \E s \in Shares, d \in Devices :
              /\ bound[s] = d /\ status[s] = "offered"
              /\ grants' = grants \cup {<<s, d>>}
         /\ UNCHANGED <<status, bound>>

Finish == /\ \E gone \in SUBSET grants : grants' = grants \ gone
          /\ UNCHANGED <<status, bound>>

Next == Move \/ Bind \/ Grant \/ Finish

Spec == Init /\ [][Next]_vars
==============================================================================
