------------------------------- MODULE MCHelper -------------------------------
(* Instances of Helper for TLC.                                             *)
EXTENDS Helper

Quiet(mayFail, servers) ==
    [mayFail |-> mayFail, ignores |-> FALSE, reboots |-> FALSE, servers |-> servers]

\* Every command of a setup may fail, and of a teardown those that another
\* repeats; one server.
Ordinary == Quiet({"pkexec setup", "stale", "add", "configure", "pin", "default",
                   "resolved", "backup", "prepend", "flush", "revert"},
                  {CHOOSE s \in Servers : TRUE})

\* The same with a resolv.conf that may not be there, or not be UTF-8.
Unreadable == [Ordinary EXCEPT !.mayFail = @ \cup {"read"}]

\* Everything fails, is killed or ignored; the machine reboots.
Faulty == [mayFail |-> Commands, ignores |-> TRUE, reboots |-> TRUE, servers |-> Servers]

Tried == {Ordinary, Unreadable, Faulty}

\* A machine without systemd-resolved, and a user who ignores the dialog.
NoResolved == {[Quiet({"resolved"}, Servers) EXCEPT !.ignores = TRUE]}

\* The default route of the uplink has no metric.
DefaultTaken == {Quiet({"default"}, Servers)}
=============================================================================
