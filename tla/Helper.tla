-------------------------------- MODULE Helper --------------------------------
(***************************************************************************)
(* draytek-vpn-helper, the privileged program that installs and removes     *)
(* what a tunnel of the GUI needs, and the GUI that runs it: privilege.rs,  *)
(* phases 3 and 4 of tunnel/engine.rs, the stale device dialog of window.rs.*)
(*                                                                          *)
(* A step of the model is one command of the helper, which the kernel or    *)
(* the file system runs whole or not at all.  The helper is a process of    *)
(* its own: it goes on when the GUI that started it dies.  One helper runs  *)
(* at a time; GuiEngine has the overlap of two.                             *)
(***************************************************************************)
EXTENDS Naturals, FiniteSets

CONSTANTS
    Servers, NoServer,  \* IPv4 addresses of VPN servers; none (--server-ip absent)
    Machines            \* the machines, with their users, that are considered

Commands == {"pkexec setup", "stale", "add", "configure", "pin", "record", "default",
             "resolved", "read", "backup", "prepend",
             "pkexec teardown", "unpin", "flush", "del", "revert", "restore", "kill"}

Wants == [gw : BOOLEAN, server : Servers \cup {NoServer}, dns : BOOLEAN]

\* The commands that may fail; whether the user may answer Ignore to the dialog
\* and the machine may reboot; the servers of the user's profiles.
Machine == [mayFail : SUBSET Commands, ignores : BOOLEAN, reboots : BOOLEAN,
            servers : SUBSET Servers]

ASSUME HelperConstants == NoServer \notin Servers /\ Machines \subseteq Machine

VARIABLES
    machine,    \* the one this behaviour is about
    pc,         \* the next command of the helper, "idle" when none runs
    want,       \* TunnelSetup of the last setup
    restore,    \* --restore-dns of the teardown
    session,    \* what the GUI does with the tunnel
    last,       \* observer: how the last helper run ended, "none" while one runs
    device,     \* draytek0 exists
    defaulted,  \* the default route points into it
    linkdns,    \* systemd-resolved has a DNS server for it
    bypass,     \* servers with a host route on the uplink
    record,     \* /run/draytek-vpn-draytek0.bypass
    conf,       \* whose nameserver is first in /etc/resolv.conf
    backup      \* what /run/draytek-vpn-resolv.bak holds

vars    == <<machine, pc, want, restore, session, last, device, defaulted, linkdns, bypass,
             record, conf, backup>>
onLink  == <<device, defaulted, linkdns>>
pinned  == <<bypass, record>>
dnsFile == <<conf, backup>>
caller  == <<machine, want, restore, session, last>>

SetupSteps    == {"stale", "add", "configure", "pin", "record", "default", "resolved",
                  "backup", "prepend"}
TeardownSteps == {"unpin", "flush", "del", "revert", "restore"}

Failing(command) == command \in machine.mayFail

-----------------------------------------------------------------------------
(* The ends of a run.                                                       *)

\* The helper exits, or is not started.  A setup that failed leaves the engine
\* without a tunnel: run_inner returns and tears nothing down.
Exit(how) ==
    /\ pc' = "idle" /\ last' = how
    /\ session' = IF session = "gone" THEN "gone"
                  ELSE IF how = "setup" THEN "up" ELSE "none"
    /\ UNCHANGED <<machine, want, restore>>

Goto(step) == pc' = step /\ UNCHANGED caller

\* The command fails and setup with it.
Fails(command) ==
    /\ Failing(command) /\ Exit("failed")
    /\ UNCHANGED <<onLink, pinned, dnsFile>>

\* What the kernel drops with the device.
LinkGone == device' = FALSE /\ defaulted' = FALSE /\ linkdns' = FALSE

-----------------------------------------------------------------------------
Init == /\ machine \in Machines
        /\ pc = "idle" /\ session = "none" /\ last = "none" /\ restore = FALSE
        /\ want = [gw |-> FALSE, server |-> NoServer, dns |-> FALSE]
        /\ device = FALSE /\ defaulted = FALSE /\ linkdns = FALSE
        /\ bypass = {} /\ record = NoServer
        /\ conf = "user" /\ backup = "none"

Run(step, then) ==
    pc' = step /\ session' = then /\ last' = "none" /\ UNCHANGED machine

(* The GUI.                                                                 *)

Connect ==
    /\ session = "none" /\ pc = "idle"
    /\ want' \in Wants /\ want'.server \in machine.servers \cup {NoServer}
    /\ Run("stale", "setup")
    /\ UNCHANGED <<restore, onLink, pinned, dnsFile>>

\* The data loop has ended, or open_tun failed.
Disconnect ==
    /\ session = "up"
    /\ restore' = want.dns /\ Run("unpin", "teardown")
    /\ UNCHANGED <<want, onLink, pinned, dnsFile>>

Crash ==
    /\ session # "gone" /\ session' = "gone"
    /\ UNCHANGED <<machine, pc, want, restore, last, onLink, pinned, dnsFile>>

\* Mutant: the backup alone decides.
Restart_ByBackup ==
    /\ session = "gone" /\ pc = "idle"
    /\ session' = IF backup # "none" THEN "dialog" ELSE "none"
    /\ restore' = (device /\ backup # "none")
    /\ UNCHANGED <<machine, pc, want, last, onLink, pinned, dnsFile>>

\* The window of a new GUI looks for a device and for a backup.
Restart ==
    /\ session = "gone" /\ pc = "idle"
    /\ session' = IF device THEN "dialog" ELSE "none"
    /\ restore' = (device /\ backup # "none")
    /\ UNCHANGED <<machine, pc, want, last, onLink, pinned, dnsFile>>

CleanUp ==
    /\ session = "dialog" /\ Run("unpin", "teardown")
    /\ UNCHANGED <<want, restore, onLink, pinned, dnsFile>>

Ignore ==
    /\ session = "dialog" /\ machine.ignores /\ session' = "none"
    /\ UNCHANGED <<machine, pc, want, restore, last, onLink, pinned, dnsFile>>

\* The prompt of pkexec is dismissed: the helper does not run.
Denied ==
    /\ \/ pc = "stale" /\ Failing("pkexec setup")
       \/ pc = "unpin" /\ Failing("pkexec teardown")
    /\ Exit("denied") /\ UNCHANGED <<onLink, pinned, dnsFile>>

Killed ==
    /\ pc # "idle" /\ Failing("kill")
    /\ Exit("killed") /\ UNCHANGED <<onLink, pinned, dnsFile>>

\* /run is gone with the machine's memory, /etc is not.
Reboot ==
    /\ machine.reboots /\ pc' = "idle" /\ session' = "gone" /\ last' = "none"
    /\ LinkGone /\ bypass' = {} /\ record' = NoServer /\ backup' = "none"
    /\ UNCHANGED <<machine, want, restore, conf>>

-----------------------------------------------------------------------------
(* cmd_setup.                                                               *)

\* A device of an earlier session is removed, if it can be.
Stale ==
    /\ pc = "stale" /\ Goto("add")
    /\ \/ LinkGone
       \/ Failing("stale") /\ UNCHANGED onLink
    /\ UNCHANGED <<pinned, dnsFile>>

\* Mutant: a device that could not be removed is taken over.
Add_Reuse ==
    /\ pc = "add"
    /\ \/ device' = TRUE /\ Goto("configure")
          /\ UNCHANGED <<defaulted, linkdns, pinned, dnsFile>>
       \/ Fails("add")

Add ==
    /\ pc = "add"
    /\ \/ ~device /\ device' = TRUE /\ Goto("configure")
          /\ UNCHANGED <<defaulted, linkdns, pinned, dnsFile>>
       \/ device /\ Exit("failed") /\ UNCHANGED <<onLink, pinned, dnsFile>>
       \/ Fails("add")

AfterDefault == IF want.dns THEN Goto("resolved") ELSE Exit("setup")

\* Mutant: the default route is installed first, the bypass after it.
Configure_DefaultFirst ==
    /\ pc = "configure"
    /\ \/ /\ IF ~want.gw THEN AfterDefault ELSE Goto("default")
          /\ UNCHANGED <<onLink, pinned, dnsFile>>
       \/ Fails("configure")

Configure ==
    /\ pc = "configure"
    /\ \/ /\ IF ~want.gw THEN AfterDefault
             ELSE Goto(IF want.server = NoServer THEN "default" ELSE "pin")
          /\ UNCHANGED <<onLink, pinned, dnsFile>>
       \/ Fails("configure")

\* ip route get and ip route replace.
Pin ==
    /\ pc = "pin"
    /\ \/ bypass' = bypass \cup {want.server} /\ Goto("record")
          /\ UNCHANGED <<record, onLink, dnsFile>>
       \/ Fails("pin")

Record ==
    /\ pc = "record" /\ Goto("default")
    /\ \/ record' = want.server
       \/ Failing("record") /\ UNCHANGED record
    /\ UNCHANGED <<bypass, onLink, dnsFile>>

\* ip route add default fails too when the uplink's has the same metric.
Default ==
    /\ pc = "default"
    /\ \/ defaulted' = TRUE /\ AfterDefault
          /\ UNCHANGED <<device, linkdns, pinned, dnsFile>>
       \/ Fails("default")

\* resolvectl dns, resolvectl domain; when the second fails the first stays.
Resolved ==
    /\ pc = "resolved"
    /\ \/ linkdns' = TRUE /\ Exit("setup")
       \/ Failing("resolved") /\ linkdns' \in BOOLEAN /\ (linkdns => linkdns')
          /\ Goto("backup")
    /\ UNCHANGED <<device, defaulted, pinned, dnsFile>>

\* Mutant: the file is written before its backup.
Backup_AfterWrite ==
    /\ pc = "backup"
    /\ \/ backup' = "vpn" /\ Goto("prepend")
       \/ Failing("read") /\ Goto("prepend") /\ UNCHANGED backup
       \/ Failing("backup") /\ Exit("setup") /\ UNCHANGED backup
    /\ UNCHANGED <<conf, onLink, pinned>>

\* A resolv.conf that cannot be read (there is none, a link leads nowhere, it is
\* not UTF-8) is not saved, and taken for empty by Prepend.  A backup that cannot
\* be written ends direct_dns_setup, which is a warning.
Backup ==
    /\ pc = "backup"
    /\ \/ backup' = conf /\ Goto("prepend")
       \/ Failing("read") /\ Goto("prepend") /\ UNCHANGED backup
       \/ Failing("backup") /\ Exit("setup") /\ UNCHANGED backup
    /\ UNCHANGED <<conf, onLink, pinned>>

Prepend ==
    /\ pc = "prepend" /\ Exit("setup")
    /\ \/ conf' = "vpn"
       \/ Failing("prepend") /\ UNCHANGED conf
    /\ UNCHANGED <<backup, onLink, pinned>>

-----------------------------------------------------------------------------
(* cmd_teardown.                                                            *)

\* remove_server_bypass_route: the record goes whether or not the route did.
Unpin ==
    /\ pc = "unpin" /\ Goto("flush")
    /\ \/ bypass' = bypass \ {record}
       \/ Failing("unpin") /\ UNCHANGED bypass
    /\ record' = NoServer
    /\ UNCHANGED <<onLink, dnsFile>>

\* ip route flush dev, ip link set down.
Flush ==
    /\ pc = "flush" /\ Goto("del")
    /\ \/ defaulted' = FALSE
       \/ Failing("flush") /\ UNCHANGED defaulted
    /\ UNCHANGED <<device, linkdns, pinned, dnsFile>>

\* Mutant: DNS is left to the removal of the device.
AfterDel_NoRestore == Exit("teardown")

AfterDel == IF restore THEN Goto("revert") ELSE Exit("teardown")

Del ==
    /\ pc = "del" /\ AfterDel
    /\ \/ LinkGone
       \/ Failing("del") /\ UNCHANGED onLink
    /\ UNCHANGED <<pinned, dnsFile>>

\* resolvectl revert.
Revert ==
    /\ pc = "revert" /\ Goto("restore")
    /\ \/ linkdns' = FALSE
       \/ Failing("revert") /\ UNCHANGED linkdns
    /\ UNCHANGED <<device, defaulted, pinned, dnsFile>>

Restore ==
    /\ pc = "restore" /\ Exit("teardown")
    /\ \/ backup # "none" /\ conf' = backup /\ backup' = "none"
       \/ (backup = "none" \/ Failing("restore")) /\ UNCHANGED dnsFile
    /\ UNCHANGED <<onLink, pinned>>

-----------------------------------------------------------------------------
cmd_setup    == \/ Stale \/ Add \/ Configure \/ Pin \/ Record \/ Default
                \/ Resolved \/ Backup \/ Prepend
cmd_teardown == Unpin \/ Flush \/ Del \/ Revert \/ Restore

Gui == Connect \/ Disconnect \/ Crash \/ Restart \/ CleanUp \/ Ignore

Next == cmd_setup \/ cmd_teardown \/ Gui \/ Denied \/ Killed \/ Reboot

Spec == Init /\ [][Next]_vars

\* A helper that runs goes on, a device found at startup is answered for.
FairSpec == /\ Spec /\ WF_vars(cmd_setup) /\ WF_vars(cmd_teardown)
            /\ WF_vars(Restart) /\ WF_vars(CleanUp)

-----------------------------------------------------------------------------
TypeOK ==
    /\ pc \in {"idle"} \cup SetupSteps \cup TeardownSteps
    /\ machine \in Machines /\ restore \in BOOLEAN
    /\ want \in Wants /\ want.server \in machine.servers \cup {NoServer}
    /\ session \in {"none", "setup", "up", "teardown", "gone", "dialog"}
    /\ last \in {"none", "setup", "failed", "denied", "killed", "teardown"}
    /\ device \in BOOLEAN /\ defaulted \in BOOLEAN /\ linkdns \in BOOLEAN
    /\ bypass \subseteq machine.servers /\ record \in machine.servers \cup {NoServer}
    /\ conf \in {"user", "vpn"} /\ backup \in {"none", "user", "vpn"}

\* A tunnel that is up has its device, the default route if and only if the
\* profile asked for it (never the one of a session before), and then the
\* server's own address routed outside it, whatever failed, crashed, was killed
\* or was left behind before (helper.rs 346-449).
UpAsAsked ==
    session = "up" =>
        /\ device
        /\ defaulted <=> want.gw
        /\ want.gw /\ want.server # NoServer => want.server \in bypass

\* The default route points into the tunnel, and so does what the tunnel itself
\* sends to its server.
Blackholed == defaulted /\ want.server # NoServer /\ want.server \notin bypass

\* Nothing but the teardown of a session that is over makes a tunnel swallow its
\* own transport: not a setup, wherever it fails or is killed, not a device left
\* behind, not a route of another session.  A teardown does, for as long as it
\* takes from the removal of the bypass to that of the default route
\* (helper.rs 232-235, 407-430, 487-490).
BypassFirst ==
    [][want' = want /\ Blackholed'
        => Blackholed \/ (pc = "unpin" /\ session \notin {"setup", "up"})]_vars

\* One server, no helper killed, no reboot between two sessions, the dialog
\* answered with Clean Up, and no failure of what a teardown does once only.
OrdinaryMachine ==
    /\ machine.mayFail \cap
            {"record", "pkexec teardown", "unpin", "del", "restore", "kill"} = {}
    /\ ~machine.ignores /\ ~machine.reboots
    /\ \A s, t \in machine.servers : s = t

\* What the restoration of the user's DNS configuration rests on: that there was
\* one to read.  Otherwise setup makes no backup and writes the file all the same
\* (helper.rs 331-339), and nothing gives it back.
Readable == ~Failing("read")

\* On an ordinary machine what a later teardown needs to undo is on disk whenever
\* no helper runs: the bypass in its record and, where it could be read, the
\* user's resolv.conf in its backup.  Setup orders its commands for this
\* (helper.rs 248-342).
Recoverable ==
    OrdinaryMachine =>
        /\ pc = "idle" => bypass \subseteq {record}
        /\ Readable /\ conf = "vpn" => backup = "user"

\* After a teardown that ran to its end on an ordinary machine nothing of any
\* tunnel is left, of the session it ends or of one that crashed or failed to
\* set up before it, except a resolv.conf that could not be read
\* (helper.rs 480-542).
CleanAfterTeardown ==
    OrdinaryMachine /\ last = "teardown" =>
        ~device /\ ~defaulted /\ ~linkdns /\ bypass = {} /\ (Readable => conf = "user")

\* A teardown told to restore the DNS configuration gives the user's back
\* (helper.rs 505-534).
DnsRestored == last = "teardown" /\ restore => conf = "user"

\* A teardown leaves no bypass route (helper.rs 237-244).
NoBypassLeft == last = "teardown" => bypass = {}

\* Once the GUI of an ordinary machine does not crash any more, a device that a
\* crash left is found at the next start and goes, with all that depends on it
\* (window.rs 336-375).
CrashIsCleanedUp ==
    OrdinaryMachine /\ <>[][session' = "gone" => session = "gone"]_session
        => (session = "gone" /\ device ~> session # "gone" /\ ~device)
=============================================================================
