# Verification of the DrayTek SSL VPN client

TLA+ specifications of this repository (a Linux client for DrayTek SSL VPN
routers, in Rust), the TLC configurations that model-check them, and theorems
with proofs checked by TLAPS. `PROJECT.json` lists every run, mutant and
theorem, and maps each definition to the source lines it models.

    tlc -workers 2 -config MCNegotiate.cfg MCNegotiate     # a model-checking run
    tlapm Negotiate_proofs.tla                             # a proof

## 1. The system

Three programs share one protocol library.

| component | state it keeps | operations | talks to |
|---|---|---|---|
| **PPP automaton** `protocol/src/protocol/fsm.rs` (options in `ppp_control.rs`, tables in `lcp.rs`, `ipcp.rs`) | state, option lists with *tried* marks, retry counter, identifier, latest request id | Up, Open, Close, Timeout, one handler per frame code | returns actions to its owner; performs no I/O |
| **Negotiation driver** `protocol/src/negotiate.rs`, `engine_common.rs` | two automata (LCP, IPCP), `auth_done`, `ipcp_started`, socket buffer, deadline | read with a 3 s timeout, packet loop, authentication, return | the TLS stream, a status callback |
| **Data loop** (`standalone/.../engine.rs`, `networkmanager/.../tunnel.rs`), `keepalive.rs`, `PingKeeper` | keepalive counters, last activity, ping state, leftover buffer, the two automata | `select!` over TUN, TLS, timer, commands | TUN device, TLS stream, UI or D-Bus |
| **GUI engine** `engine.rs::run` | phase, TUN handle, command channel | connect, negotiate, set up, data loop, tear down | window (commands, status queue), helper |
| **GUI window** `ui/window.rs`, `connection_view.rs` | current command sender, status queue, button states | connect, disconnect, toggle keepalive, drain | tokio tasks |
| **Privileged helper** `draytek-vpn-helper.rs`, `privilege.rs` | kernel device, routes, bypass record, DNS and its backup | setup, check, teardown | run by the engine, one process per call |
| **NetworkManager plugin** `plugin.rs`, `tunnel.rs` | `vpn_state`, one tunnel handle, tunnel tasks | Connect, Disconnect, NeedSecrets, signals | NetworkManager over D-Bus |
| **Tray** `nm_monitor.rs`, `main.rs` | watched set, latest-state channel, `connected_at` | scan, watch, connect, disconnect, poll statistics | NetworkManager over D-Bus |
| **TLS/HTTP connection** `connection.rs` | none after it returns | connect | router |
| wire formats, digests, configuration, forms, C editor | none or a file | pure functions, forms | - |

How they interact: the driver and the data loop *call* the automata and write
the frames of the returned actions; engine and window exchange *messages* (an
unbounded command channel, a mutex-protected status queue drained every
100 ms); the plugin signals its tunnel task through a *notify* permit; tray and
plugin see each other only through NetworkManager's *signals*; GUI engine and
helper share the *kernel's state* and two files under `/run`.

What is hard about each, and what makes it correct:

* Automaton: late answers, resent requests, renegotiation from an open state,
  repeated option types. Correct when its state never claims a half of the
  handshake that was not acknowledged, the options it reports are those that
  were acknowledged, retries are counted per silence, and option bargaining ends.
* Driver: one timer for two automata, a deadline looked at between reads only,
  three ways to start IPCP, failures signalled through returned actions.
  Correct when it returns, for the right reason, and never drives on an
  automaton that stopped.
* Data loop: a timer restarted by other branches of the `select!`, counters
  reset by replies only, automata without timeouts, a command against a dying
  stream. Correct when a dead server is noticed and every exit is clean.
* GUI engine and window: commands sent in a phase that does not read them,
  tunnels that overlap, exit during teardown. Correct when a disconnect is
  obeyed and what was set up is torn down.
* Helper: commands that fail or are cut short in the middle. Correct when
  teardown after any prefix of a setup restores routes and DNS.
* Plugin: a method call against a task that is still running. Correct when the
  announced state follows the tunnel and every tunnel can be stopped.
* Tray: state read before a subscription, a coalescing channel, watchers that
  overlap. Correct when the displayed state converges to NetworkManager's.

`PROJECT.json` lists each of these hazards at its line with the properties that
cover it; where the code falls short of its own words, or no property can be
asked of it, a note says so.

## 2. The modules

| module | models | checked by |
|---|---|---|
| `PppFsm` | pure operators: the automaton's handlers, `handler(fsm, input) = [fsm, acts]` | used by the next four |
| `FsmEndpoint` | one automaton, its owner and an arbitrary peer | `MCFsmEndpoint.cfg` |
| `OptionWalk` | the option loops of `fsm.rs`, one round at a time, against the closed forms of `PppFsm` | `MCOptionWalk.cfg` |
| `OptionParse` | the loop of `parse_options` over any bytes | `MCOptionWalk.cfg` |
| `Negotiate` | `negotiate()` with both automata | `MCNegotiate*.cfg` |
| `DataLoop` | the data loops of the GUI engine and of the plugin, with `keepalive.rs` and `PingKeeper` | `MCDataLoop*.cfg` |
| `Wire` | pure operators: SSTP packets, PPP frames and control frames as bytes, written and parsed | used by `Framing`, `OptionParse` |
| `Framing` | the stream of packets, cut into reads, through the buffer of `negotiate()` and of the data loop | `MCFraming.cfg` |
| `Fifo` | abstract: messages received once, whole, in order | implemented by `Framing` |
| `SessionLife` | abstract: the life of a session as its owner is told of it | implemented by `GuiEngine`, by `NmPlugin` up to stale signals |
| `GuiEngine` | window, connection view, status queue, tunnel tasks with their command channels, application exit | `MCGuiEngine*.cfg` |
| `Helper` | setup and teardown of the privileged helper, command by command, and the GUI that runs it | `MCHelper*.cfg` |
| `NmPlugin` | the plugin's methods, its tunnel tasks, their signals, NetworkManager receiving them | `MCNmPlugin*.cfg` |
| `Tray` | monitor, watchers, watch channel, main loop, menu requests, NetworkManager's connections | `MCTray*.cfg` |
| `Profiles` | `config.toml`, keyring, the windows' copies, dropdown and profile editor | `MCProfiles*.cfg` |
| `PppFsm_proofs`, `Negotiate_proofs`, `DataLoop_proofs`, `GuiEngine_proofs` | lemmas and theorems about these modules | `tlapm` |
| `Automaton_proofs` | theorems about `FsmEndpoint` and `OptionWalk`, around and inside the handlers of one automaton | `tlapm` |
| `Wire_proofs` | theorems about `Framing` and `OptionParse`, which read bytes | `tlapm` |
| `Host_proofs` | theorems about `Helper` and `Profiles`, whose state outlives the program | `tlapm` |
| `NetworkManager_proofs` | theorems about `NmPlugin` and `Tray`, which meet in NetworkManager | `tlapm` |

Operators keep the names of the functions they model (`handle_config_request`,
`get_auth_method`, `check_shutdown`). A definition whose name ends in
`_Something` and whose comment begins with *Mutant* is a plausible bug; it is
used by nothing and serves to show that a property can fail.

In `Tray`, `Profiles`, `OptionWalk` and `OptionParse` the usual names carry the component's
(`TrayInit`, `ProfilesTypeOK`, `WalkSpec`), because one proof module extends each of them
beside `NmPlugin`, `Helper`, `FsmEndpoint` or `Framing`.

How the modules compose. `PppFsm` is extended by the automaton's environment, by
`Negotiate` and by `DataLoop`: they run the same handlers. The larger modules
take the smaller ones as phases: a negotiation, a helper run and a data loop are one
step or one stage of a task in `GuiEngine` and `NmPlugin`, with the outcomes that
`Negotiate`, `Helper` and `DataLoop` show possible. `NmPlugin` and `Tray` meet in
NetworkManager only, which is external to both.

An environment in a variable. The properties of `Helper`, `GuiEngine` and `DataLoop` are
asked of several environments: a machine on which every command works, or any may
fail; a user who connects once, or clicks twice; the window's loop, or the
plugin's. These are the variables `machine`, `scene` and `plugin`, chosen in
`Init` and never changed, so that one run and one theorem speak of all of them; a property that
needs a kind environment names it as its premise (`OrdinaryMachine`, `Quiet`, `scene.patient`).

**PppFsm.** The struct `PppFsm` is the record set `Fsm`, field by field; the
`tried` flags of the table entries are the set of marked positions; a desired
option that the peer rejected leaves the slot `NoOption`. Options are
type/value pairs, an option area either is a sequence of options or is
`Malformed` (what `parse_options` refuses). An acceptable entry with empty data
or a leading zero byte matches any value: `Wildcard`. Identifiers count modulo
`IdMod` (256 in the code). The operators are closed forms over positions and
ranks instead of loops, which is what makes them fit for proofs.

**OptionWalk** runs the loops instead: a frame of the peer comes, and each step is one
round of a `for` loop, with the lists it appends to and the marks it leaves in
`self`. `loop` names the loop, `idx` counts its rounds. `Recognize`, `Demand` and `Judge`
are the three steps of `evaluate_config_request`, `Suggest` and `Discard` the two loops of
`update_desired_local_options`; frames follow one another on the same automaton, so that marks
and removed options accumulate. What only `parse_options` decides (`Malformed`) is left to
**OptionParse**, whose steps are the rounds of that `while`: an option whose header and data
lie inside the area is pushed, anything else ends the walk with an error. The two share no
state; one run checks both, each alone (`MCNext`).

**FsmEndpoint.** One action per event; the peer may send any frame with any
identifier at any time. The variable `hist` is an observer: it sees the events
and the returned actions and nothing of the automaton's fields. `Init` has no
`desired_remote` options because both constructors pass none; the branch for
missing options stays in `Verdict` and is exercised by `OptionWalk`.

**Negotiate.** `pc` is the place in the loop: `check` (top of the loop), `read`
(awaiting data), `process` (complete packets in the buffer), `end`. `CheckDeadline`,
`ReadData`, `ReadTimesOut` and `ConnectionFails` are the loop's read; one
action per kind of packet follows, each with the whole arm: the automaton's
handler, `check_shutdown`, the authentication step, and the test for success.
The content of a buffered packet is chosen when it is parsed; before that the
code looks at nothing but its length. Time is counted in ticks and passes while
the task reads and, since writes are awaited, while it handles packets. A status
callback that does nothing but report is left out; `check_disconnect` returns
`false` in both programs (`engine.rs:55`, `networkmanager/.../tunnel.rs:170`), so
the branch that returns `None` is dead code and not modelled. A write that fails
is `ConnectionFails`; the one before the loop returns before the modelled part begins.

**DataLoop.** One action per branch of the `select!` and per kind of packet; the
variable `plugin` chooses between the two programs, which differ in how the owner
speaks to the loop (a command channel, or the permit of a `Notify`) and in who
turns the ping on. `pc` is `enter` (before the first select), `select`,
`process` (a read left complete packets) and `end`. A branch runs to its end
before the next select, so in `process` nothing but time, a failing write and the
owner's sending can intervene. `idle` and `ping_age` are the ages of
`last_tun_activity` and `last_sent`; `delay` is what is left of the sleep that
each turn of the loop starts anew (`Again`). `pinged` and `silence` (time since
the last REPLY) are observers. The loop starts with the two automata as
`negotiate()` leaves them, opened by the very handlers of `PppFsm` (`LinkOpens`
says they are), and with packets possibly left in the buffer.
`last_socket_activity` is written and never read, and traffic statistics only
report: both are left out.

**Wire, Framing.** Bytes are numbers below `Base`, so that a length of two bytes
is `Base * high + low`; each writer and parser has the checks of the code in its
order. `Read` takes any part of what is on the stream up to `READ_BUF_SIZE`, the inner
loop takes one packet at a time, and `Handover` is the return of `negotiate()` with
what the buffer still holds; the observer `beyond` is set when that
includes a whole packet, until the next read. Control frames may carry padding, which
`PppControlFrame::parse` cuts off.

**Helper.** A step is one command (`ip`, `resolvectl`, a file written), which the
kernel runs whole or not at all; `pc` names the next one. `want` is what the engine
asks for, `session` what the GUI believes, and the rest is what the machine has: the
device, the default route, the host routes (`bypass`) and their one-line record, whose
nameserver comes first in `/etc/resolv.conf`, and the backup. The GUI may crash in
any state (`Crash`), which does not stop a helper that runs; the helper may be
killed, the prompt refused, the dialog of the next start answered or ignored, the
machine restarted, each if `machine` allows. Removing the device removes what depends on it.
A `resolv.conf` that cannot be read (`Backup`, failure `read`) is not saved, taken for empty and
written over, and the setup goes on.
Arguments that do not validate have the effect of a refused prompt: the helper ends before it does
anything.

**GuiEngine.** A task goes through the stages of `run_inner`; each is one step with
all it sends and all it changes, and a run of the helper is one step. `Drain` is the
100 ms timer: it empties the queue in order and applies `update_status`
to the widgets, which are the record `view`. Clicking the keepalive button and setting
it by code both reach the handler that sends a command, as in GTK. `EndLoop`
has the statuses of `run` and `run_inner` after the loop; `Teardown` drops the fd
first. Under `scene.partial` a run of the helper may fail, by a refused prompt or in the middle: then a
setup leaves the device or not, and `Teardown` and `CleanUp` leave it with or without its routes, with
no other word to the user than Disconnected. The observer `left` has the tasks of which a helper failed.
`Exit` is the end of `main` after the window is closed: it drops the tasks
where they are. Of the statuses, `Handshaking` is sent when `connect()` has
returned, not when the handshake starts (`messages.rs:11`); nothing depends on it.

**NmPlugin.** The object's methods run alone; `Disconnect` is two
signals after a step that takes the handle and leaves a permit with the task. A
task sends its signals one by one, waiting for room on the bus. NetworkManager is
external: it receives in order, ends an activation on `STOPPED`, and cannot
tell which task sent a signal. It activates again when it has been told the end of the activation before,
whose task may run on; a late `STOPPED` of that task then ends the new activation. The observer
`orphaned` has the tunnels that NetworkManager gave up for such a signal.

**Tray.** NetworkManager lists an activation while it is live and for a moment
longer; a signal reaches only the watchers that have subscribed. The monitor scans
before it subscribes, and then after each pause of 500 ms that followed an event,
unless some path is marked as watched. A watcher reads, reports, subscribes, then reports what it hears. One that ends takes its mark away
(`Leaves`) and sends Disconnected in a later step (`Departs`), between which the monitor may scan and
others may send. The observer `clicked` has what was shown as connected at each click on Disconnect. The watch
channel keeps the latest value; the main loop takes it, computes the time and shows
it. Statistics, icons and texts are left out.

**Profiles.** A profile is its name and password; the observer `given` is what the
user typed last. `save_config` never writes a password; the keyring has one entry per
name. Nothing compares names, so that several profiles may share that entry: the observer `mixed` has the
names that two profiles have or had, and those that took over a password from one of them.
Handlers of the window run to their end on the GTK thread, and the editor is a
modal dialog of one window. A second window has its own copy of the file.

## 3. The properties and the runs

| run | states (distinct) | time | what it checks |
|---|---|---|---|
| `fsm_endpoint` | 57 429 | 15 s | `HandshakeSound`, `AgreedOptions`, `RetryBudget`, `NakBudget` |
| `option_walk` | 94 429 | 35 s | `JudgedAsWalked`, `DesiredAsWalked`, for 156 lists in any order; `ParsedAsWritten`, for 781 areas |
| `negotiate` | 347 424 | 1 min | `StoppedIsLast`, `IpcpTimerArmed`, `TerminateIsFinal`, `TimeoutsNeverGiveUp`, liveness `NegotiationEnds` |
| `data_loop` | 209 968 | 1 min 15 | `AnswersKeepAlive`, liveness `DisconnectObeyed`, `SilenceNoticed`, `MuteNoticed` |
| `framing` | 43 209 | 30 s | `InOrder` (refinement of `Fifo`), liveness `Heard` |
| `helper` | 87 387 | 10 s | `UpAsAsked`, `BypassFirst`, `Recoverable`, `CleanAfterTeardown`, liveness `CrashIsCleanedUp` |
| `gui_engine` | 434 043 | 2 min | `ViewSettles`, `KeepaliveShown`, `TunnelIntact`, `NothingLeft`, `ToldInOrder` (refinement of `SessionLife`), liveness `DisconnectServed`, `OrphanEnds` |
| `nm_plugin` | 231 824 | 1 min 40 | `LostToAnother`, `ToldInOrder` (`SessionLife` up to stale signals), liveness `ToldToTheEnd`, `DisconnectEnds` |
| `tray` | 872 861 | 1 min 40 | `EndsWhatWasShown`, liveness `Follows`, `MarksEnd` |
| `profiles` | 56 808 (symmetry) | 10 s | `OwnPassword`, `NoPasswordLeft`, `StartsAsLeft` |
| `helper_dns` | (violated) | | `DnsRestored` |
| `tray_missed` | (violated) | | `ShowsWhatIs` |

Every module with a state has a type invariant. All of them are
theorems (section 4), so the runs leave them out.

* `HandshakeSound` - the state names which halves of the handshake stand, and
  it is never wrong about it, whatever arrives late or twice.
* `AgreedOptions` - the options the owner reads are those of the two Acks.
* `RetryBudget` - the counter is the number of timeouts since the peer last
  answered, and only too many of them, or an unreadable answer, stop the automaton.
* `NakBudget` - bargaining ends: at most one Config-Nak per table entry, for the
  life of the automaton.
* `StoppedIsLast`, `IpcpTimerArmed`, `TerminateIsFinal` - no call site forgets
  `check_shutdown`, no path forgets the timer, no terminated LCP leads to success.
* `TimeoutsNeverGiveUp` - with the constants of the code (10 retries of 3 s, a
  deadline of 30 s) the retry limit never ends a negotiation; the deadline does.
* `NegotiationEnds` - `negotiate()` returns.
* `AnswersKeepAlive` - the loop ends for missed replies only when as many whole
  intervals have passed since the last REPLY, although requests are triggered by
  idle time, counted at once and reset by replies only.
* `DisconnectObeyed` - a disconnect ends the loop, also behind other commands and
  with a TUN device and a stream that always have something to read.
* `SilenceNoticed` - when the server, the TUN device and the owner fall silent
  for good the loop ends. The premise names all three: user traffic resets the
  idle time, and each of them restarts the sleep.
* `MuteNoticed` - a server that goes on sending but answers no request any more ends the
  loop as well, if the user is idle and the timer gets its turn again and again: nothing but a
  REPLY is taken for a sign of life. (Without the turns it does not: see `MCDataLoopIdle.cfg`.)
* `JudgedAsWalked`, `DesiredAsWalked` - the loops over options end in the closed forms
  that every other module uses, with types that repeat, alternatives that run out and
  marks that earlier frames left.
* `ParsedAsWritten` - what `parse_options` returns, written again, is the area it read,
  and it refuses only what no list of options encodes.
* `InOrder`, `Heard` - however the stream is cut and wherever `negotiate()` stops,
  messages come out once, whole and in order; a server that has sent all it will is heard
  to the last message, before and after the handover, unless negotiation ended inside a read
  that went beyond it and nothing was read after.
* `UpAsAsked`, `BypassFirst` - whatever failed or was left behind before, a tunnel
  reported as set up has the routes asked for, and nothing makes a tunnel swallow its own
  transport but the teardown of a session that is over, between the removal of the bypass
  (`draytek-vpn-helper.rs:487`) and that of the default route (`490`).
* `Recoverable`, `CleanAfterTeardown` - on an ordinary machine what undoes a setup is on
  disk whenever no helper runs, wherever a command failed or the GUI died, and a teardown that
  ran to its end leaves nothing of any session. What they say of the DNS file is premised on
  `Readable`: of a file that could not be read there is no backup, and it is written over. `CrashIsCleanedUp` - a device left by a
  crash is found and removed.
* `ViewSettles`, `KeepaliveShown` - with both queues empty the widgets agree with
  the tasks, overlapping tasks included.
* `TunnelIntact` - with one connection at a time on a machine where nothing was left, the tunnel
  of a data loop is up and routed and its own.
* `NothingLeft` - with one connection at a time a task that is over leaves its device only where a
  run of the helper failed for it, also beside a stale device and its cleanup.
* `DisconnectServed`, `OrphanEnds` - a Disconnect waiting in a channel ends its
  task, whatever phase it finds; a task whose channel was replaced ends too.
* `ToldInOrder`, `ToldToTheEnd` - the window and NetworkManager are told the life
  of one session after another: a refinement of `SessionLife`, with the label
  of the view and NetworkManager's phase as the mapping. In `NmPlugin` the step that receives a
  signal of an earlier activation is excepted; what an activation's own task and its Disconnect
  send is in order. A signal that comes when there is no activation is ignored, as is the
  second `STOPPED` of a task that `Disconnect` announced as stopped.
* `LostToAnother` - a tunnel that comes up or is up can be ended, by the handle or the permit
  it has, also when `Connect` replaces a handle, unless NetworkManager took the `STOPPED` of
  another tunnel for its own. `DisconnectEnds` - the tunnel of the activation for
  which Disconnect is called ends, unless it hangs in its TLS handshake.
* `Follows` - the tray comes to show what NetworkManager has, for good, once
  nothing more happens and if every watcher subscribed in time. `MarksEnd` - the mark of
  a connection that is over goes, unless its watcher subscribed too late to hear of the end.
* `EndsWhatWasShown` - a request of the menu ends a connection that was shown as
  connected at the click and no other, whatever is up by the time it is served.
* `OwnPassword`, `NoPasswordLeft`, `StartsAsLeft` - every profile connects with
  the password its user gave it last, unless another has or had its name (`mixed`), the keyring
  keeps none of a profile that is gone, and the next start shows what the window shows.

Bounds. Retry limit 2 and identifiers modulo 2 or 3 let the limit and the wrap
happen within a few steps; 3 is enough for an answer to be to the latest
request, to an earlier one, or to none. The endpoint's table has a wildcard and
two alternatives of one type, and the peer's option areas cover every verdict
but *missing*. In `negotiate` a read takes 1 tick, the deadline is 2 and the limit 2, so that
`Deadline <= RestartLimit * ReadTimeout` holds with equality as it does in the
code, and reads can time out, be interrupted or complete up to 2 packets, which
is what it takes for a packet to be left over when the loop breaks. `Tick` stops
counting `now` outside a read once the deadline has passed; how long ago it passed is never
looked at. In the data
loop an interval is 2 ticks, the short sleep 1, the ping period 2, and 2 replies may be
missed: timers expire alone and together, and the
counter passes through *none*, *some* and *too many*. One packet per read is
enough because packets are handled one by one; two commands let one wait behind
another. Clocks stop at the largest value the code compares them with.

In `option_walk` the table has two entries of one type, a wildcard and a type of which no
alternative is left after one offer; the desired options repeat a type; and three options
let a list repeat, exhaust and mix types. An area has up to 4 bytes of
five values, which holds two empty options or one with two bytes of data, and every way for
a length byte to be short, exact or too long. In `framing` bytes have four values, so that a length needs both of its bytes, the
server sends up to 3 messages, and a
read takes up to 11 bytes, which is two short packets or part of a long one.
In `helper` two servers let a session to one follow a failed session to another;
sessions are unbounded, since the state does not grow. `gui_engine` has two tasks, which is what
it takes to overlap or to follow, one waiting command, and three scenes: one
connection after another until the window is closed; two clicks before the first status;
a stale device, a setup or teardown that fails and a second launch. `nm_plugin` has three activations, so
that a late signal of the first ends the second while a third begins, and one
signal on the bus, so that senders wait and their signals interleave. `tray` has two
activations and one event of the user or of a foreign connection. In `profiles` three
names and three profiles let a rename hit a used, an unused and a freed name.

The deadlock check is off where the system may stop: `negotiate()` and the data loop
return, the server of `Framing` has said all it will, tasks and activations are used
up, an area of `OptionParse` is walked once. It is on in `fsm_endpoint`, `helper`, `profiles`.

Fairness. In `Negotiate`, `FairSpec` has weak fairness of `Tick`, `CheckDeadline`, `ReadTimesOut`
and `Process`. The runtime polls a ready task and its timers expire, and
`Process` and `CheckDeadline` only run code of the task itself. `Process` includes the
writes of the answer: the code puts no timeout on a write, so a server that
never reads may block it; the property assumes it does not, and the hazard list
says so. Nothing is assumed of the server: `ReadData` has no fairness.

In `DataLoop`, `FairSpec` has weak fairness of `Enter` and `Process` (code of
the task itself) and strong fairness of `Tick`, `TimerFires` and `Obey`: tokio's `select!`
without `biased` picks among the ready branches at random, so a branch that is ready
again and again is eventually taken, and time passes however busy the task is.
Nothing is assumed of the server, the TUN device or the owner.

`Framing`: weak fairness of reading and parsing; the server may stop anywhere.
`Helper`: the commands of a running helper are carried out, a GUI that went is started
again and the offered cleanup accepted; nothing is assumed of Connect or Disconnect.
`GuiEngine`: the timer drains, the phases end except the TLS handshake, which has no
timeout (`connection.rs:62` bounds the TCP connection only), the loop takes its
commands and notices a closed channel, the teardown ends. A run of the helper includes the
prompt of `pkexec` (`privilege.rs:112`), which has no timeout: `Setup` and `Teardown` assume that
the user answers it, one way or the other. Nothing else is assumed of the user, nor that a loop
ends by itself.
`NmPlugin`: the same of its tasks, signals are delivered, a method that began
returns. `Tray`: weak fairness of all its tasks together (`Runs`), since each comes to an end of what
it has to do, and NetworkManager stops listing what has ended. There, `Swift = TRUE` says that a watcher is
done with the signals it has within the pause of 500 ms; the work is a few calls on the
local bus. Without it an event taken while a watcher is about to leave is skipped,
and the tray stays behind.

**Disagreements between the code and what is written about it.** The first two
are runs of `PROJECT.json`. Each of the others is a configuration that TLC refutes in
seconds, named here with the property that states the text quoted.

* `helper_dns` - `draytek-vpn-helper.rs:520` says "Restore /etc/resolv.conf backup if it
  exists (covers direct-write case)". `direct_dns_setup` writes the backup without looking
  whether there is one: after a crash whose device the user chose to ignore, the next
  setup saves the resolv.conf of the crashed session over the user's.
* `tray_missed` - `nm_monitor.rs:172` says "Skip if we already have a watcher - no
  need to rescan". A watcher reads the state, reports it and subscribes afterwards; what
  happens in between is never shown.
* `MCNegotiateAuth.cfg`, `AuthStartsOnOpening` - `negotiate.rs:144` says "If LCP just
  opened, start authentication"; the condition is that LCP *is* open and
  authentication not done. An LCP frame that the open automaton ignores, such as a
  repeated Config-Ack, sends the PAP request again.
* `MCDataLoopPing.cfg`, `PingSentAtOnce` - `engine_common.rs:215` says `set_enabled`
  "returns a frame to send immediately when enabling"; the plugin (`tunnel.rs:445`)
  discards it, and since `last_sent` is set the first ping goes out a period late.
* `MCDataLoopIdle.cfg`, `RequestWhenIdle` - `keepalive.rs:1` says "10s idle -> send
  REQUEST"; the request depends on a sleep of 100 ms that any other branch restarts, so
  a server that sends more often than that keeps it back. The link is evidently
  alive then; what is lost is the request.
* `MCDataLoopShutdown.cfg`, `ShutdownHandled` - `engine_common.rs:56` says the caller
  handles a `Shutdown` "via check_shutdown"; the data loops never call it, and go on
  with an automaton that has stopped.
* `MCHelperBypass.cfg`, `NoBypassLeft` - `draytek-vpn-helper.rs:240` says that "teardown
  reads this file to find and delete" the bypass route. The file holds one
  address: a setup that failed behind its bypass, followed by a session to another
  server, leaves the first route for good.
* `MCGuiEngineExit.cfg`, `ExitTearsDown` - `app.rs:58` says "give teardown time to
  finish". Nothing tells the tasks to tear down, and `shutdown_timeout` drops a task at
  the await where it is.
* `MCGuiEngineDisconnect.cfg`, `NoSetupAfterDisconnect` - `engine.rs:57` says that a disconnect
  during negotiation is handled "by checking in the caller's loop instead". The callers
  look at the channel in the data loop only, after the privileged setup.
* `MCGuiEngineTwice.cfg`, `DisconnectedIsDown` - `messages.rs:34`, "Tunnel is
  disconnected." After two clicks on Connect before the first status is drained, the
  Disconnected of one task is shown with the tunnel of the other up.
* `MCGuiEngineRelaunch.cfg`, `StaleIsStale` - `window.rs:336`, "stale tunnel device from
  a previous crashed session". Launching the GUI again activates the running instance,
  which builds a second window and offers to clean up the device of its own tunnel.
* `MCNmPluginStale.cfg`, `TornDownByOwn` - `tunnel.rs:192`, "the activation is only torn
  down on the STOPPED state change". A disconnected tunnel is announced as stopped twice, by
  `Disconnect` and by its task; the second may arrive during the next activation.
* `MCTrayTwo.cfg`, `TwoAreShown` - with two connections up, the end of one is shown as
  Disconnected, since the other has a watcher and nothing rescans (`nm_monitor.rs:172`, `238`).
* `MCTrayTime.cfg`, `TimeOfShown` - `tray_impl.rs:16`, "when the VPN connection was
  activated by NM". The main loop drops the time on Disconnected only, and a
  Disconnected that the channel overwrote is never seen.
* `MCProfilesMigration.cfg`, `PasswordRemains` - `config.rs:180` logs "Password remains
  in config file." If the keyring took another profile's password the file is saved again,
  without any.
* `MCProfilesTwice.cfg`, `SelectionSaved` - `window.rs:322`, "Save selected profile on
  dropdown change". The handler saves the window's whole copy, and drops a profile that
  another window added.

Met while reading, without a configuration: the loop of `negotiate.rs:114`, "Process all
complete SSTP packets in the buffer", breaks when both automata are open, and what is left is
looked at after the data loop's next read only; `engine.rs:352`, "Send LCP terminate", sends
none while the server renegotiates LCP; the path of `networkmanager/.../tunnel.rs:422`, "the error path emits
Failure before STOPPED", does not hold after a Disconnect, which sends STOPPED itself;
the comment "every 3s" of the tray's `main.rs:129` and its timer of 10 s. The bypass "prevents VPN
traffic from being routed through itself" (`draytek-vpn-helper.rs:232`), but a teardown removes it before the default
route. A `resolv.conf` that cannot be read is overwritten without a backup (`331-339`). Two profiles
of one name share one entry of the keyring, and nothing keeps a user from making them.

## 4. What is proved

All theorems hold for every value of the constants. Assumptions are those named
in the modules (`TablesAssumption`, `LimitsAssumption`, ...), which TLC evaluates in
every run. Those with content are: `LimitCoversDeadline` of `Negotiate`; `MessagesFit` of
`Framing` (a length field of two bytes holds what the server puts into a packet);
one window in the theorems of `Profiles` beside the types,
and a keyring that does what it is asked in `PasswordsStayTheirs` and
`NoEntryOutlivesItsProfile` (TLC refutes all three with two windows, and the last two with a
keyring that fails: `MCProfilesTwice.cfg` and `MCProfilesMigration.cfg` show one of each);
and in `ButtonShowsPings` that
scenes whose user overlaps tasks do not use the keepalive.

* `Automaton_proofs`, `FsmEndpoint`: `TypeCorrect`, `HandshakeIsSound`, `RetryBudgetHolds`,
  `AgreedOptionsHold`, `NakBudgetHolds`. The inductive invariant `IInv` adds to the
  properties that the open request's identifier is the one the automaton
  compares with (`RequestOpen`: without it a late answer could not be told
  apart), that an acknowledged request has spent no retries (`AnsweredResets`:
  the renegotiation branch relies on it, since it does not reset the counter) and
  that every Config-Nak sent has marked a table entry (`NaksMarkEntries`: bounds
  the Naks by a cardinality). The proof goes in two layers, control then options, one
  lemma per action.
* `Automaton_proofs`, `OptionWalk`: `WalkTypes`, and for every table, option list, history of
  marks and desired list `LoopsJudge` (the three loops of `evaluate_config_request` give the
  frame and the marks of `Reply` and `TriedAfter`) and `LoopsUpdate` (those of
  `update_desired_local_options` give `AfterNak` and `AfterReject`). No induction over lists
  is needed, since the loops are steps: the invariant has one part per loop (`Recognizing`,
  `Demanding`, `Judging`, `Suggesting`, `Discarding`), which says that lists and automaton are
  those of the first `idx` options. The closed forms go by rank: the n-th refusable option
  of a type takes the n-th untried entry of that type. What makes that the code's "first
  entry not tried" is `FirstIsNext` (after c marks the first free entry has rank c + 1)
  with `RankStep`, and `AtGrows` makes a list of chosen positions grow by an `Append`.
* `Negotiate_proofs`: `TypeCorrect`, `StoppedIsLastHolds`, `IpcpTimerArmedHolds`,
  `TerminateIsFinalHolds`, `RetryLimitUnreached`. The last one is arithmetic:
  `RetriesTakeTime` says that each retry of an automaton stands for a whole read
  timeout that has passed, `ReadInTime` that a read begins before the
  deadline; so a read that times out finds fewer than `RestartLimit` retries spent.
* `DataLoop_proofs`: `TypeCorrect`, `AnswersKeepAliveHolds`. The invariant
  `MissesTakeTime` says that of n missed replies all but the first stand for a
  whole interval each, and that the present idle time comes on top: without the
  second half a request that falls due could not be counted as an interval.
* `Wire_proofs`, `Framing`: `FramingTypesKept` and `StreamImplementsFifo`, for all messages and
  paddings, byte sizes, read sizes, and any number of messages in flight. The invariant
  `Whole` says that the bytes not yet parsed, those in the buffer and those on the stream
  taken together, have cuts (`Cuts`), and that between the k-th pair lies the k-th message
  not yet received. The buffer may end anywhere; a packet is taken when it lies in front
  of that end, and then it is the first message because of `SstpParse` and the lemma that a
  written message is parsed as itself (`MessageWritten`, from `WordRead`: a
  length written into two bytes is read again). So each step of the detailed stream is a step of `Fifo`
  or a stutter.
* `Wire_proofs`, `OptionParse`: `ParseTypes` and `ParseInvertsWrite`, for areas of every length
  and every size of a byte. The invariant says that the options found spell the bytes walked,
  and (`Forced`) that every division of the area into options that fit goes
  through the same places as the walk so far; so where the walk must stop, there is none.
* `Host_proofs`, `Helper`: `TypesKept`, `TunnelAsAsked`, `BypassBeforeDefault` for every machine, however
  it fails; the last one is a property of steps. The invariant adds `Ready`, what holds at each place of a setup: the
  device is there from `configure` on, the bypass from the command behind `pin` on, nothing of an earlier session
  since the stale device went. `AlwaysRecoverable` and `TeardownCleans` need an ordinary
  machine: `OrdinaryMachine => Undoable`, which says for each place of setup and teardown which of
  route, record, resolver and backup go together (the last two if `Readable`); that the machine stays
  the same (`MachineStays`) makes the premise part of the state.
* `Host_proofs`, `Profiles`: `ProfilesTypesKept` for any number of windows, a keyring that fails as
  it likes and a file of any age. `SelectionSurvives` follows from `AsInFile`: copy and
  dropdown of the one open window agree with the file. `PasswordsStayTheirs` and
  `NoEntryOutlivesItsProfile` follow from `OneWindow`: names in the file are distinct but for those in `mixed` (two
  profiles of one name share an entry of the keyring, and deleting one takes the other's
  password); the file is either as an older version left it (`Old`) or as this one keeps it
  (`Kept`: each password in the ring unless its name is in `mixed`, none beside, none in the file); and the window's copy
  and an editor that is open on a profile agree with the file (`Agrees`).
* `GuiEngine_proofs`: `TypesKept`; `LoopKeepsTunnel`, from `Quiet => Alone` (one task
  at a time is unfinished, and nothing is being cleaned up); `NoDeviceLeft`, from
  `PatientKept` (the device belongs to a task that will still tear it down, or one of whose helpers
  failed), beside stale devices, cleanups and second windows.
  `WindowSettles` holds for all overlaps: `GivesBack` says that once all tasks are over
  the last status in the queue is Disconnected, or the queue is empty and the widgets rest.
  `WindowImplementsLife`, the refinement of `SessionLife`: `LifeTold` says that the label
  and the statuses in the queue form a line of which each step is one of a session's life,
  and that its end is where the task's stage is; draining the line then takes
  steps of `SessionLife` one by one. `ButtonShowsPings`: `AsShown` follows what the loop will have
  turned on after all commands waiting in its channel (`EndsUp`) and relates it to the
  button, also for the time in which the Connected that sets it is still in the queue.
* `NetworkManager_proofs`, `NmPlugin`: `TypesKept`; `DisconnectReaches` (while an activation is not
  stopping and no signal is on its way, the handle is that of its tunnel, and the tunnel is alive),
  `NoneLostOtherwise` and `SignalsTellLife`, all for tasks that overlap as they like. The invariant
  `Reached` says that while an activation starts or is on the handle is that of its
  task, and that a task that is over has a `STOPPED` still on its way; `Spoken` that of
  the tunnel whose handle is held nobody but its own task says that it stopped, and `Handle`
  that a handle is that of the last Connect and goes with the Disconnect. For
  `SignalsTellLife`, `Orderly` adds that while an activation is not stopping each `STOPPED` of its
  task on its way comes behind a `STOPPING`.
* `NetworkManager_proofs`, `Tray`: `TrayTypesKept`, and `RequestsEndWhatWasShown`, from the invariant
  that what the menu asked to end was shown when it did; the
  invariant adds that requests to connect are not more than clicks.
* `PppFsm_proofs`: what the handlers return (types, replies, marks, their number).

Only model-checked is liveness, which is out of the prover's reach: `NegotiationEnds`,
`DisconnectObeyed`, `SilenceNoticed`, `MuteNoticed`, `Heard`, `CrashIsCleanedUp`, `DisconnectServed`,
`OrphanEnds`, `ToldToTheEnd`, `DisconnectEnds`, `Follows`, `MarksEnd`. Every invariant and every action property of a
passing run is a theorem.

## 5. Not modelled, and what could follow

* Authentication digests (`auth/`): pure computations without state, with unit tests.
* OpenSSL's handshake and the bytes of the HTTP exchange: `connect()` is a phase of a
  task, which ends, fails or hangs.
* Log view and logging; the C settings editor and the secrets dialog of
  NetworkManager: forms and buffers without protocol state.
* Icons, texts and statistics of the tray; traffic counters of the window.
* Failing D-Bus calls in tray and plugin; a configuration file that cannot be read or
  written (`window.rs:38`: it is replaced in memory by the default, which the next save writes over it).
* Timing below the ticks of the models, and writes that block.

What could follow: `PppLink`, two automata over FIFO channels with the tables of LCP and
IPCP, for the liveness of the handshake with a cooperative router; two windows in `GuiEngine`.
