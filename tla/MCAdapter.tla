----------------------------- MODULE MCAdapter ------------------------------
(* The environments in which Adapter is checked: entry points, events and   *)
(* failures that meet.                                                      *)
EXTENDS Adapter

\* The stack and ethtool against resets and surprise removal, on a single
\* vector; PCIe recovery, with a slot that may not come back; power management,
\* bus errors and removal; the same without bus errors, when everything may
\* fail; hibernation.
Calls ==
    {[ops |-> UserOps, events |-> {"pf", "global", "gone"}, failures |-> {},
      backplane |-> TRUE, msix |-> FALSE],
     [ops |-> {"open", "close", "reinit", "ringparam", "test"},
      events |-> {"pf", "recover"}, failures |-> {"enable"}, backplane |-> TRUE, msix |-> TRUE],
     [ops |-> {"open", "close", "reinit", "suspend", "resume", "aer", "remove"},
      events |-> {"pf"}, failures |-> {"perm"}, backplane |-> FALSE, msix |-> TRUE],
     [ops |-> {"open", "close", "reinit", "ringparam", "suspend", "resume", "remove"},
      events |-> {"pf"}, failures |-> FailureKinds, backplane |-> TRUE, msix |-> TRUE],
     [ops |-> {"open", "close", "reinit", "freeze", "thaw"}, events |-> {},
      failures |-> {"irq"}, backplane |-> FALSE, msix |-> TRUE]}

\* One disagreement each, on a KR device with MSI-X.
Plain(ops, events) ==
    {[ops |-> ops, events |-> events, failures |-> {}, backplane |-> TRUE, msix |-> TRUE]}

Closed   == Plain({"open", "close"}, {"intr"})
Recovers == Plain({"open", "close", "aer"}, {})
Freezes  == Plain({"open", "freeze", "thaw"}, {"pf"})
Removed  == Plain({"open", "remove"}, {"recover"})
=============================================================================
