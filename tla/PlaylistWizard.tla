--------------------------- MODULE PlaylistWizard ---------------------------
(***************************************************************************)
(* From the panel in which a user chooses what to make a playlist of to    *)
(* the job: validation, confirmation token, creation request, and the      *)
(* worker's look at the tracks.  A panel that is closed stays mounted      *)
(* while it slides out, and answers reach it as long as it is mounted; any *)
(* answer may be lost.                                                     *)
(*                                                                         *)
(* Counts of tracks matter as 0, 1 to 24, 25 to 49, and 50 or more; the    *)
(* first two, and the last two, differ for the top tracks only.            *)
(***************************************************************************)
EXTENDS Naturals, Sequences, FiniteSets

CONSTANTS
    Choices,     \* what can be chosen: playlists, terms, or numbers of plays
    Default,     \* what is chosen before the user does, if anything
    Nothing,     \* no choice
    Stocks,      \* how many tracks the worker may find behind each choice at first
    Totals,      \* how many items a playlist to shuffle may hold at first
    MaxClosed,   \* bound on the resets that are due at a time
    MaxCalls,    \* bound on requests
    MaxFaults    \* bound on lost answers, failures, and changes of what a choice holds

Classes == {0, 1, 25, 50}  \* each count stands for all up to the next
NoToken == 0

ASSUME WizardAssumption ==
    /\ Nothing \notin Choices
    /\ Stocks \subseteq [Choices -> Classes] /\ Totals \subseteq [Choices -> Classes]
    /\ MaxClosed \in Nat
    /\ Default \in [{"shuffle", "recent", "top50"} -> Choices \cup {Nothing}]
    /\ MaxCalls \in Nat /\ MaxFaults \in Nat


VARIABLES
    method,   \* which of the three panels this is
    stock,    \* tracks the worker can use behind each choice
    total,    \* what Spotify counts: with local files and tracks it no longer has
    panel,    \* closed, open, or leaving: closed but still sliding out
    step, choice,
    shown,    \* the token of the validation the panel holds
    timers,   \* resets that are due 300 ms after a close
    calls,    \* requests under way, and answers to them
    sent,     \* requests so far
    tokens,   \* tokens in the order of issue: choice, warned, expired, and of what was
              \* counted for them whether it has changed since (stale) and whether the
              \* worker could use less of it (partial)
    jobs,     \* rows of playlist_jobs
    faults

stockVars == <<stock, total>>
vars == <<method, stockVars, panel, step, choice, shown, timers, calls, sent, tokens, jobs,
          faults>>
panelVars == <<panel, step, choice, shown>>
serverVars == <<tokens, jobs>>
boundVars == <<sent, faults>>

Fault == faults < MaxFaults /\ faults' = faults + 1

\* A user whose requests are used up does not touch the panel but to close it.
More == sent < MaxCalls

Init ==
    /\ method \in {"shuffle", "recent", "top50"}
    /\ stock \in Stocks
    /\ total \in IF method = "shuffle" THEN {t \in Totals : \A c \in Choices : t[c] >= stock[c]}
                 ELSE {stock}
    /\ panel = "closed" /\ step = "input" /\ choice = Default[method] /\ shown = NoToken
    /\ timers = 0
    /\ calls = {} /\ sent = 0
    /\ tokens = <<>> /\ jobs = {}
    /\ faults = 0

-----------------------------------------------------------------------------
\* The panel.

\* A panel that is still leaving comes back as it is.
Open ==
    /\ More /\ panel # "open" /\ panel' = "open"
    /\ UNCHANGED <<method, stockVars, step, choice, shown, timers, calls, serverVars, boundVars>>

\* The cross and the backdrop are there in every step, also while a request runs.
Close ==
    /\ panel # "closed" /\ panel' = "leaving"
    /\ timers < MaxClosed /\ timers' = timers + 1
    /\ UNCHANGED <<method, stockVars, step, choice, shown, calls, serverVars, boundVars>>

\* What is left of requests nobody listens to: those for a creation that still run.
\* A validation leaves nothing behind, its token is stored nowhere.
Unheard(cs) ==
    {[c EXCEPT !.heard = FALSE] : c \in {d \in cs : d.kind = "create" /\ d.at \notin {"ok", "error"}}}

Wiped == step' = "input" /\ choice' = Default[method] /\ shown' = NoToken

\* It wipes the panel even if it has been opened again.
ResetState ==
    /\ timers > 0 /\ timers' = timers - 1
    /\ Wiped
    /\ UNCHANGED <<method, stockVars, panel, calls, serverVars, boundVars>>

\* The panel is gone, with its state and its timers, and hears no answer any more.
Unmount ==
    /\ panel = "leaving" /\ panel' = "closed"
    /\ Wiped
    /\ timers' = 0
    /\ calls' = Unheard(calls)
    /\ UNCHANGED <<method, stockVars, serverVars, boundVars>>

\* What is chosen can be changed, and with playlists also taken back.
Choose(c) ==
    /\ More /\ panel # "closed" /\ step = "input" /\ choice # c
    /\ choice' = c
    /\ UNCHANGED <<method, stockVars, panel, step, shown, timers, calls, serverVars, boundVars>>

\* Back keeps the validation.
Back ==
    /\ More /\ panel # "closed" /\ step = "confirm"
    /\ step' = "input"
    /\ UNCHANGED <<method, stockVars, panel, choice, shown, timers, calls, serverVars, boundVars>>

Send(kind, token) ==
    /\ More /\ sent' = sent + 1
    /\ calls' = calls \cup {[id |-> sent', kind |-> kind, at |-> "sent", choice |-> choice,
                             token |-> token, heard |-> TRUE]}
    /\ UNCHANGED <<method, stockVars, panel, choice, shown, timers, serverVars, faults>>

Validate ==
    /\ panel # "closed" /\ step = "input" /\ choice # Nothing
    /\ step' = "validating"
    /\ Send("validate", NoToken)

Create ==
    /\ panel # "closed" /\ step = "confirm" /\ shown # NoToken
    /\ step' = "creating"
    /\ Send("create", shown)

-----------------------------------------------------------------------------
\* What comes back, and what the panel makes of it, whatever it shows by then.

\* The call has got to `at`; one that nobody listens to any more ends there.
Moves(call, at, token) ==
    calls' = (calls \ {call}) \cup
             IF at \in {"ok", "error"} /\ ~call.heard THEN {}
             ELSE {[call EXCEPT !.at = at, !.token = token]}

\* Mutant: a creation that fails is left as it is.
SettlesNot(call, ok) ==
    \/ ok /\ call.kind = "validate" /\ step' = "confirm" /\ shown' = call.token
    \/ ok /\ call.kind = "create" /\ step' = "success" /\ UNCHANGED shown
    \/ ~ok /\ call.kind = "validate" /\ step' = "input" /\ UNCHANGED shown
    \/ ~ok /\ call.kind = "create" /\ UNCHANGED <<step, shown>>

Settles(call, ok) ==
    \/ ok /\ call.kind = "validate" /\ step' = "confirm" /\ shown' = call.token
    \/ ok /\ call.kind = "create" /\ step' = "success" /\ UNCHANGED shown
    \/ ~ok /\ call.kind = "validate" /\ step' = "input" /\ UNCHANGED shown
    \/ ~ok /\ call.kind = "create" /\ step' = "confirm" /\ UNCHANGED shown

Answer(call) ==
    /\ call.at \in {"ok", "error"}
    /\ calls' = calls \ {call}
    /\ Settles(call, call.at = "ok")
    /\ UNCHANGED <<method, stockVars, panel, choice, timers, serverVars, boundVars>>

\* The connection breaks: the panel has its error, the server goes on.
AnswerLost(call) ==
    /\ call.heard
    /\ Fault
    /\ calls' = (calls \ {call}) \cup Unheard({call})
    /\ Settles(call, FALSE)
    /\ UNCHANGED <<method, stockVars, panel, choice, timers, serverVars, sent>>

-----------------------------------------------------------------------------
\* The routes.

\* What a validation counts: of a playlist Spotify's total, else what can be used.
Counted(c) == IF method = "shuffle" THEN total[c] ELSE stock[c]

\* Mutant: only an empty selection is refused.
RefusedEmptyOnly(count) == method # "shuffle" /\ count = 0

Refused(count) == \/ method = "recent" /\ count < 25
                  \/ method = "top50" /\ count = 0

Warned(count) == \/ method = "shuffle" /\ count < 25
                 \/ method = "top50" /\ count < 50

\* Spotify or the refresh of the top tracks may fail.
ServeValidate(call) ==
    LET count == Counted(call.choice) IN
    /\ call.kind = "validate" /\ call.at = "sent"
    /\ \/ /\ Refused(count)
          /\ Moves(call, "error", NoToken)
          /\ UNCHANGED <<tokens, faults>>
       \/ /\ ~Refused(count)
          /\ tokens' = Append(tokens, [choice |-> call.choice, warned |-> Warned(count),
                                       expired |-> FALSE, stale |-> FALSE,
                                       partial |-> count # stock[call.choice]])
          /\ Moves(call, "ok", Len(tokens'))
          /\ UNCHANGED faults
       \/ Fault /\ Moves(call, "error", NoToken) /\ UNCHANGED tokens
    /\ UNCHANGED <<method, stockVars, panelVars, timers, jobs, sent>>

JobOf(token) == {j \in jobs : j.token = token}

\* Mutant: only the token's signature and age are verified.
AcceptsAnyChoice(call) == ~tokens[call.token].expired

Accepts(call) == ~tokens[call.token].expired /\ tokens[call.token].choice = call.choice

\* The token is verified with the parameters of the request; then a job with its
\* key is looked for.
ServeFind(call) ==
    /\ call.kind = "create" /\ call.at = "sent"
    /\ \/ ~Accepts(call) /\ Moves(call, "error", call.token)
       \/ Accepts(call) /\ JobOf(call.token) # {} /\ Moves(call, "ok", call.token)
       \/ Accepts(call) /\ JobOf(call.token) = {} /\ Moves(call, "found none", call.token)
    /\ UNCHANGED <<method, stockVars, panelVars, timers, serverVars, boundVars>>

\* There is no slot for the user.
Busy(call) ==
    /\ call.kind = "create" /\ call.at = "found none"
    /\ Fault
    /\ Moves(call, "error", call.token)
    /\ UNCHANGED <<method, stockVars, panelVars, timers, serverVars, sent>>

NewJob(call, status) ==
    jobs' = jobs \cup {[id |-> call.id, token |-> call.token, choice |-> call.choice,
                        status |-> status]}

\* The key is unique; a row may be left without its job in the queue.
ServeCreate(call) ==
    /\ call.kind = "create" /\ call.at = "found none"
    /\ \/ JobOf(call.token) # {} /\ Moves(call, "error", call.token) /\ UNCHANGED <<jobs, faults>>
       \/ /\ JobOf(call.token) = {}
          /\ NewJob(call, "queued") /\ Moves(call, "ok", call.token)
          /\ UNCHANGED faults
       \/ /\ JobOf(call.token) = {}
          /\ Fault
          /\ NewJob(call, "not queued") /\ Moves(call, "error", call.token)
    /\ UNCHANGED <<method, stockVars, panelVars, timers, tokens, sent>>

\* The worker counts what it finds by then, without local files and missing tracks.
Resolve(job) ==
    /\ job.status = "queued"
    /\ jobs' = (jobs \ {job}) \cup
               {[job EXCEPT !.status = IF stock[job.choice] < 25 THEN "refused" ELSE "made"]}
    /\ UNCHANGED <<method, stockVars, panelVars, timers, calls, tokens, boundVars>>

\* Five minutes after it was issued; told of tokens that may still be verified.
Expire(t) ==
    /\ ~tokens[t].expired
    /\ t = shown \/ \E call \in calls : call.token = t /\ call.at = "sent"
    /\ tokens' = [tokens EXCEPT ![t].expired = TRUE]
    /\ UNCHANGED <<method, stockVars, panelVars, timers, calls, jobs, boundVars>>

\* The counts that this method tells apart.
Levels == IF method = "top50" THEN Classes ELSE {1, 25}

\* Tracks come and go; whoever has validated the choice does not learn of it.
StockChanges(c) ==
    /\ Fault
    /\ \E n \in Levels, m \in Levels :
        /\ n <= m /\ (n = m \/ method = "shuffle")
        /\ n # stock[c] \/ m # total[c]
        /\ stock' = [stock EXCEPT ![c] = n]
        /\ total' = [total EXCEPT ![c] = m]
    /\ tokens' = [t \in DOMAIN tokens |->
                    [tokens[t] EXCEPT !.stale = @ \/ tokens[t].choice = c]]
    /\ UNCHANGED <<method, panelVars, timers, calls, jobs, sent>>

-----------------------------------------------------------------------------
Panel == \/ Open \/ Close \/ ResetState \/ Unmount \/ Back \/ Validate \/ Create
         \/ \E c \in Choices \cup {Default[method]} : Choose(c)
Serve == \E call \in calls : ServeValidate(call) \/ ServeFind(call) \/ Busy(call) \/ ServeCreate(call)
Answers == \E call \in calls : Answer(call)
Next == \/ Panel \/ Serve \/ Answers
        \/ \E call \in calls : AnswerLost(call)
        \/ \E job \in jobs : Resolve(job)
        \/ \E t \in DOMAIN tokens : Expire(t)
        \/ \E c \in Choices : StockChanges(c)

Spec == Init /\ [][Next]_vars

\* Server, network and worker go on; nothing is asked of the user.
FairSpec == Spec /\ WF_vars(Serve) /\ WF_vars(Answers) /\ WF_vars(\E job \in jobs : Resolve(job))

-----------------------------------------------------------------------------
\* Every variable has its type; the panel holds a token that was issued, and waits
\* only for a request of its own (shuffle-modal.tsx:31, 112, 134).
TypeOK ==
    /\ method \in {"shuffle", "recent", "top50"}
    /\ stock \in [Choices -> Classes] /\ total \in [Choices -> Classes]
    /\ panel \in {"closed", "open", "leaving"}
    /\ step \in {"input", "validating", "confirm", "creating", "success"}
    /\ choice \in Choices \cup {Nothing}
    /\ shown \in 0 .. Len(tokens)
    /\ timers \in 0 .. MaxClosed
    /\ calls \subseteq [id : 1 .. MaxCalls, kind : {"validate", "create"},
                        at : {"sent", "found none", "ok", "error"},
                        choice : Choices \cup {Nothing},
                        token : 0 .. Len(tokens), heard : BOOLEAN]
    /\ sent \in 0 .. MaxCalls
    /\ tokens \in Seq([choice : Choices, warned : BOOLEAN, expired : BOOLEAN, stale : BOOLEAN,
                       partial : BOOLEAN])
    /\ jobs \subseteq [id : 1 .. MaxCalls, token : 1 .. Len(tokens), choice : Choices,
                       status : {"queued", "not queued", "made", "refused"}]
    /\ faults \in 0 .. MaxFaults

\* What is created is what was validated.  The panel alone does not see to it: a late
\* answer may put the token of one choice beside another (shuffle-modal.tsx:60, 123,
\* playlists.ts:311).
CreatedAsValidated == \A j \in jobs : j.choice = tokens[j.token].choice

\* A playlist that the worker refuses for want of tracks is one the user was warned
\* about, or something has changed since.  The exception are playlists with local files
\* or tracks Spotify no longer has: the validation counts them, and the worker drops
\* them (playlists.ts:134, 203, 270, playlist-service.ts:102, playlist-worker.ts:144).
RefusedWasWarned ==
    \A j \in jobs : j.status = "refused" =>
        \/ tokens[j.token].warned \/ tokens[j.token].stale
        \/ method = "shuffle" /\ tokens[j.token].partial

\* The panel never waits for ever, whatever is lost, refused or closed meanwhile
\* (shuffle-modal.tsx:124, 147).
WaitEnds == step \in {"validating", "creating"} ~> step \notin {"validating", "creating"}

=============================================================================
