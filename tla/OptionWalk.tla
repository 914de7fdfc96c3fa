----------------------------- MODULE OptionWalk -----------------------------
(***************************************************************************)
(* The loops over options in fsm.rs, one round at a time, as the code runs  *)
(* them: the three steps of evaluate_config_request, and the two loops of   *)
(* update_desired_local_options.  They write into the automaton while they  *)
(* walk.  PppFsm states their outcome in closed form; here the two are      *)
(* compared.                                                                *)
(***************************************************************************)
EXTENDS PppFsm

CONSTANTS
    Wanted,         \* the options asked for at first
    Table,          \* the table of options accepted from the peer
    Demanded,       \* the options the peer must include
    Lists           \* the option lists the peer may send

ASSUME WalkAssumption ==
    /\ Wanted \in Seq(Option) /\ Table \in Seq(TableEntry)
    /\ Demanded \in Seq(Option) /\ Lists \subseteq Seq(Option)

VARIABLES
    self,           \* the automaton
    before,         \* observer: the automaton when the frame came
    received,       \* the frame
    loop, idx,      \* the loop that runs, the options it is done with
    reject_list, nak_list,
    answer          \* what evaluate_config_request answers

lists    == <<reject_list, nak_list>>
walkVars == <<self, before, received, loop, idx, lists, answer>>

NoFrame == Frame("none", 0, <<>>)

WalkInit == /\ self = new(Wanted, Table, Demanded) /\ before = self
            /\ received = NoFrame /\ loop = "done" /\ idx = 0
            /\ reject_list = <<>> /\ nak_list = <<>> /\ answer = NoFrame

-----------------------------------------------------------------------------
Starts(which) == loop' = which /\ idx' = 0

Walks(which, list) == /\ loop = which /\ idx < Len(list) /\ idx' = idx + 1
                      /\ UNCHANGED <<before, received, loop, answer>>

\* The option the loop is at.
opt == received.opts[idx + 1]

Ends(which, list) == loop = which /\ idx = Len(list)
                     /\ UNCHANGED <<self, before, received>>

Answers(code, list) == /\ answer' = Frame(code, received.id, list)
                       /\ Starts("done") /\ UNCHANGED lists

\* A frame of the peer that the automaton looks at; the lists are new.
Comes == /\ loop = "done" /\ before' = self /\ UNCHANGED self
         /\ reject_list' = <<>> /\ nak_list' = <<>> /\ answer' = NoFrame
         /\ \E opts \in Lists :
              \/ received' = Frame("ConfReq", 0, opts) /\ Starts("recognize")
              \/ received' = Frame("ConfNak", 0, opts) /\ Starts("suggest")
              \/ received' = Frame("ConfRej", 0, opts) /\ Starts("discard")

-----------------------------------------------------------------------------
(* evaluate_config_request.                                                 *)

\* Step 1: options whose type the table lacks.
Recognize ==
    /\ Walks("recognize", received.opts)
    /\ reject_list' = IF is_option_recognized(self, opt.type) THEN reject_list
                      ELSE Append(reject_list, opt)
    /\ UNCHANGED <<self, nak_list>>

Recognized ==
    /\ Ends("recognize", received.opts)
    /\ IF reject_list # <<>> THEN Answers("ConfRej", reject_list)
       ELSE Starts("demand") /\ UNCHANGED <<lists, answer>>

\* Step 2: options that the peer should have sent.
Demand ==
    /\ Walks("demand", self.desired_remote)
    /\ LET desired == self.desired_remote[idx + 1]
       IN  nak_list' = IF \E p \in DOMAIN received.opts : received.opts[p].type = desired.type
                       THEN nak_list ELSE Append(nak_list, desired)
    /\ UNCHANGED <<self, reject_list>>

\* Both lists of step 3 are new too.
DemandsMet ==
    /\ Ends("demand", self.desired_remote)
    /\ IF nak_list # <<>> THEN Answers("ConfNak", nak_list)
       ELSE Starts("judge") /\ UNCHANGED <<lists, answer>>

\* The entries select_acceptable_option may return.
Free(type) == {i \in DOMAIN self.acceptable \ self.tried : self.acceptable[i].type = type}

First(K) == CHOOSE k \in K : \A j \in K : k <= j

\* Step 3: each option that the table does not accept is answered by the first
\* entry of its type that was not tried, which is marked, or rejected.
Passes  == is_option_acceptable(self, opt) /\ UNCHANGED <<self, lists>>

Offers  == /\ ~ is_option_acceptable(self, opt) /\ Free(opt.type) # {}
           /\ self' = [self EXCEPT !.tried = @ \cup {First(Free(opt.type))}]
           /\ nak_list' = Append(nak_list, self.acceptable[First(Free(opt.type))])
           /\ UNCHANGED reject_list

Refuses == /\ ~ is_option_acceptable(self, opt) /\ Free(opt.type) = {}
           /\ reject_list' = Append(reject_list, opt)
           /\ UNCHANGED <<self, nak_list>>

Judge == Walks("judge", received.opts) /\ (Passes \/ Offers \/ Refuses)

Judged ==
    /\ Ends("judge", received.opts)
    /\ IF reject_list # <<>> THEN Answers("ConfRej", reject_list)
       ELSE IF nak_list # <<>> THEN Answers("ConfNak", nak_list)
       ELSE Answers("ConfAck", received.opts)

-----------------------------------------------------------------------------
(* update_desired_local_options.                                            *)

Slots(type) == {i \in DOMAIN self.desired : /\ self.desired[i] # NoOption
                                            /\ self.desired[i].type = type}

\* Config-Nak: a suggestion is written into every slot of its type.
Suggest ==
    /\ Walks("suggest", received.opts)
    /\ self' = [self EXCEPT !.desired =
                    [i \in DOMAIN @ |-> IF i \in Slots(opt.type) THEN opt ELSE @[i]]]
    /\ UNCHANGED lists

\* Config-Reject: an option removes the first desired one of its type.
Discard ==
    /\ Walks("discard", received.opts)
    /\ self' = IF Slots(opt.type) = {} THEN self
               ELSE [self EXCEPT !.desired[First(Slots(opt.type))] = NoOption]
    /\ UNCHANGED lists

Updated == /\ \E which \in {"suggest", "discard"} : Ends(which, received.opts)
           /\ Starts("done") /\ UNCHANGED <<lists, answer>>

WalkNext == \/ Comes \/ Recognize \/ Recognized \/ Demand \/ DemandsMet \/ Judge
            \/ Judged \/ Suggest \/ Discard \/ Updated

WalkSpec == WalkInit /\ [][WalkNext]_walkVars

-----------------------------------------------------------------------------
WalkTypeOK ==
    /\ self \in Fsm /\ before \in Fsm
    /\ received = NoFrame \/ received \in [code : {"ConfReq", "ConfNak", "ConfRej"},
                                           id : {0}, opts : Lists]
    /\ loop \in {"recognize", "demand", "judge", "suggest", "discard", "done"}
    /\ idx \in Nat /\ reject_list \in Seq(Option) /\ nak_list \in Seq(Option \cup TableEntry)
    /\ answer \in [code : {"none", "ConfRej", "ConfNak", "ConfAck"}, id : {0},
                   opts : Seq(Option \cup TableEntry)]

\* Whatever was marked and suggested before, judging a list by rank among the
\* untried entries gives the frame and the marks that the code's nested loops
\* give, for repeated types, exhausted alternatives and rejected lists too
\* (evaluate_config_request and select_acceptable_option).
JudgedAsWalked ==
    loop = "done" /\ received.code = "ConfReq" =>
        /\ answer = Reply(before, received)
        /\ self = [before EXCEPT !.tried = TriedAfter(before, received.opts)]

\* Applying a Nak or a Reject slot by slot gives what applying it option by
\* option gives, for desired lists and answers that repeat a type
\* (update_desired_local_options).
DesiredAsWalked ==
    loop = "done" /\ received.code \in {"ConfNak", "ConfRej"} =>
        self = [before EXCEPT !.desired = update_desired_local_options(@, received)]
=============================================================================
