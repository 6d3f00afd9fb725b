------------------------ MODULE PlaylistWizardProofs ------------------------
(***************************************************************************)
(* What PlaylistWizard guarantees for any choices, any number of requests  *)
(* and any number of faults.                                               *)
(*                                                                         *)
(* TypeInv adds to the types what is known of requests under way: only a   *)
(* choice is validated, a creation carries a token, and past the           *)
(* verification the token is one of its own choice.  Tokens are never      *)
(* taken back and keep their choice (Kept), so that this lasts until the   *)
(* job is there, and is what each of the other invariants rests on.        *)
(***************************************************************************)
EXTENDS PlaylistWizard, SequenceTheorems, TLAPS

TokenSet == [choice : Choices, warned : BOOLEAN, expired : BOOLEAN, stale : BOOLEAN,
             partial : BOOLEAN]
CallSet(n) == [id : 1 .. MaxCalls, kind : {"validate", "create"},
               at : {"sent", "found none", "ok", "error"},
               choice : Choices \cup {Nothing}, token : 0 .. n, heard : BOOLEAN]
JobSet(n) == [id : 1 .. MaxCalls, token : 1 .. n, choice : Choices,
              status : {"queued", "not queued", "made", "refused"}]

CallInv(call) ==
    /\ call.kind = "validate" => call.choice \in Choices
    /\ call.kind = "create" => call.token # NoToken
    /\ call.kind = "create" /\ call.at = "found none" =>
           tokens[call.token].choice = call.choice

Simple ==
    /\ method \in {"shuffle", "recent", "top50"}
    /\ stock \in [Choices -> Classes] /\ total \in [Choices -> Classes]
    /\ panel \in {"closed", "open", "leaving"}
    /\ step \in {"input", "validating", "confirm", "creating", "success"}
    /\ choice \in Choices \cup {Nothing}
    /\ timers \in 0 .. MaxClosed /\ sent \in 0 .. MaxCalls /\ faults \in 0 .. MaxFaults

\* TypeOK, with names for the parts of it.
Typed ==
    /\ Simple
    /\ tokens \in Seq(TokenSet)
    /\ shown \in 0 .. Len(tokens)
    /\ calls \subseteq CallSet(Len(tokens))
    /\ jobs \subseteq JobSet(Len(tokens))

TypeInv == Typed /\ \A call \in calls : CallInv(call)

LEMMA Tokens ==
    ASSUME Typed
    PROVE  /\ tokens \in Seq(TokenSet) /\ Len(tokens) \in Nat
           /\ DOMAIN tokens = 1 .. Len(tokens)
           /\ \A t \in DOMAIN tokens : tokens[t] \in TokenSet
<1>1. tokens \in Seq(TokenSet)
    BY DEF Typed
<1>2. Len(tokens) \in Nat /\ DOMAIN tokens = 1 .. Len(tokens)
    BY <1>1, LenProperties
<1>3. \A t \in 1 .. Len(tokens) : tokens[t] \in TokenSet
    BY <1>1, ElementOfSeq
<1> QED
    BY <1>1, <1>2, <1>3

\* A token stays, with its choice, what it warned of and what it missed, and stale once
\* it is.
Kept ==
    /\ Len(tokens) <= Len(tokens')
    /\ \A t \in DOMAIN tokens :
        /\ tokens'[t].choice = tokens[t].choice
        /\ tokens'[t].warned = tokens[t].warned
        /\ tokens'[t].partial = tokens[t].partial
        /\ tokens[t].stale => tokens'[t].stale

-----------------------------------------------------------------------------
\* The tokens.

LEMMA Issued ==
    ASSUME TypeInv, NEW call \in calls, ServeValidate(call)
    PROVE  tokens' \in Seq(TokenSet) /\ Kept
<1>1. CASE UNCHANGED tokens
    BY <1>1, Tokens DEF TypeInv, Kept
<1>2. CASE \E token \in TokenSet : tokens' = Append(tokens, token)
    <2>1. PICK token \in TokenSet : tokens' = Append(tokens, token)
        BY <1>2
    <2> QED
        BY <2>1, Tokens, AppendProperties DEF TypeInv, Kept
<1>3. CASE ~UNCHANGED tokens
    <2>1. call.kind = "validate" /\ call.choice \in Choices
        BY DEF ServeValidate, TypeInv, CallInv
    <2>2. /\ Warned(Counted(call.choice)) \in BOOLEAN
          /\ (Counted(call.choice) # stock[call.choice]) \in BOOLEAN
        BY DEF Warned
    <2> QED
        BY <1>2, <1>3, <2>1, <2>2 DEF ServeValidate, TokenSet
<1> QED
    BY <1>1, <1>3

LEMMA Expired ==
    ASSUME TypeInv, NEW t \in DOMAIN tokens, Expire(t)
    PROVE  tokens' \in Seq(TokenSet) /\ Kept /\ Len(tokens') = Len(tokens)
<1> DEFINE token == [tokens[t] EXCEPT !.expired = TRUE]
<1>1. tokens[t] \in TokenSet /\ t \in 1 .. Len(tokens) /\ tokens \in Seq(TokenSet)
    BY Tokens DEF TypeInv
<1>2. /\ token \in TokenSet /\ token.choice = tokens[t].choice
      /\ token.warned = tokens[t].warned /\ token.stale = tokens[t].stale
      /\ token.partial = tokens[t].partial
    BY <1>1 DEF TokenSet
<1>3. tokens' = [tokens EXCEPT ![t] = token]
    BY DEF Expire
<1> HIDE DEF token
<1> QED
    BY <1>1, <1>2, <1>3, Tokens, ExceptSeq DEF TypeInv, Kept

LEMMA Stale ==
    ASSUME TypeInv, NEW c \in Choices, StockChanges(c)
    PROVE  /\ tokens' \in Seq(TokenSet) /\ Kept /\ Len(tokens') = Len(tokens)
           /\ \A t \in DOMAIN tokens : tokens[t].choice = c => tokens'[t].stale
<1> DEFINE token(t) == [tokens[t] EXCEPT !.stale = @ \/ tokens[t].choice = c]
<1>1. /\ DOMAIN tokens = 1 .. Len(tokens) /\ Len(tokens) \in Nat
      /\ \A t \in DOMAIN tokens : tokens[t] \in TokenSet
    BY Tokens DEF TypeInv
<1>2. ASSUME NEW t \in DOMAIN tokens
      PROVE  /\ token(t) \in TokenSet /\ token(t).choice = tokens[t].choice
             /\ token(t).warned = tokens[t].warned /\ token(t).partial = tokens[t].partial
             /\ token(t).stale = (tokens[t].stale \/ tokens[t].choice = c)
    BY <1>1 DEF TokenSet
<1>3. tokens' = [t \in DOMAIN tokens |-> token(t)]
    BY DEF StockChanges
<1> HIDE DEF token
<1>4. tokens' \in [1 .. Len(tokens) -> TokenSet]
    BY <1>1, <1>2, <1>3
<1>5. tokens' \in Seq(TokenSet)
    <2>1. tokens' \in UNION {[1 .. n -> TokenSet] : n \in Nat}
        BY <1>1, <1>4
    <2> QED
        BY <2>1, SeqDef
<1>6. Len(tokens') = Len(tokens)
    BY <1>1, <1>4, <1>5, LenProperties
<1>7. \A t \in DOMAIN tokens : tokens'[t] = token(t)
    BY <1>3
<1>8. ASSUME NEW t \in DOMAIN tokens
      PROVE  /\ tokens'[t].choice = tokens[t].choice
             /\ tokens'[t].warned = tokens[t].warned
             /\ tokens'[t].partial = tokens[t].partial
             /\ tokens[t].stale => tokens'[t].stale
             /\ tokens[t].choice = c => tokens'[t].stale
    BY <1>2, <1>7
<1> QED
    BY <1>1, <1>5, <1>6, <1>8 DEF Kept

-----------------------------------------------------------------------------
\* The requests under way.

SameRequest(c, d) ==
    c.kind = d.kind /\ c.at = d.at /\ c.choice = d.choice /\ c.token = d.token

LEMMA CallsTyped == ASSUME TypeInv PROVE calls \subseteq CallSet(Len(tokens))
BY DEF TypeInv, Typed

LEMMA Widened ==
    ASSUME NEW m \in Nat, NEW n \in Nat, m <= n
    PROVE  CallSet(m) \subseteq CallSet(n) /\ JobSet(m) \subseteq JobSet(n)
<1>1. \A t \in 0 .. m : t \in 0 .. n
    OBVIOUS
<1>2. \A t \in 1 .. m : t \in 1 .. n
    OBVIOUS
<1> QED
    BY <1>1, <1>2 DEF CallSet, JobSet

LEMMA Unheeded ==
    ASSUME TypeInv, NEW cs \in SUBSET calls
    PROVE  /\ Unheard(cs) \subseteq CallSet(Len(tokens))
           /\ \A c \in Unheard(cs) : \E d \in calls : SameRequest(c, d)
<1>1. SUFFICES ASSUME NEW d \in cs
               PROVE  /\ [d EXCEPT !.heard = FALSE] \in CallSet(Len(tokens))
                      /\ SameRequest([d EXCEPT !.heard = FALSE], d)
    BY DEF Unheard
<1>2. d \in CallSet(Len(tokens))
    BY CallsTyped
<1> QED
    BY <1>2 DEF CallSet, SameRequest

Places == {"found none", "ok", "error"}

At(call, place, token) == [call EXCEPT !.at = place, !.token = token]

LEMMA Moved ==
    ASSUME NEW n \in Nat, NEW call \in CallSet(n),
           NEW place \in Places, NEW token \in 0 .. n
    PROVE  /\ At(call, place, token) \in CallSet(n)
           /\ At(call, place, token).kind = call.kind
           /\ At(call, place, token).choice = call.choice
           /\ At(call, place, token).at = place
           /\ At(call, place, token).token = token
BY DEF CallSet, At, Places

\* What is known of a request outlasts a step that keeps the tokens.
LEMMA CallKept ==
    ASSUME TypeInv, Kept, NEW d \in calls, NEW c, SameRequest(c, d)
    PROVE  CallInv(c)'
<1>1. d \in CallSet(Len(tokens)) /\ DOMAIN tokens = 1 .. Len(tokens) /\ Len(tokens) \in Nat
    BY CallsTyped, Tokens DEF TypeInv
<1>2. CallInv(d)
    BY DEF TypeInv
<1>3. d.kind = "create" => d.token \in DOMAIN tokens
    <2>1. d.token \in 0 .. Len(tokens)
        BY <1>1 DEF CallSet
    <2>2. d.kind = "create" => d.token # 0
        BY <1>2 DEF CallInv, NoToken
    <2> QED
        BY <1>1, <2>1, <2>2
<1> QED
    BY <1>2, <1>3 DEF SameRequest, CallInv, Kept

-----------------------------------------------------------------------------
\* Types.

LEMMA TypeInit == Init => TypeInv
<1> SUFFICES ASSUME Init PROVE TypeInv
    OBVIOUS
<1>1. tokens \in Seq(TokenSet) /\ Len(tokens) = 0
    BY EmptySeq DEF Init
<1> QED
    BY <1>1, WizardAssumption
       DEF Init, WizardAssumption, TypeInv, Typed, Simple, NoToken

LEMMA PanelStep ==
    ASSUME TypeInv,
           \/ Open \/ Close \/ ResetState \/ Back \/ UNCHANGED vars
           \/ \E c \in Choices \cup {Default[method]} : Choose(c)
    PROVE  TypeInv' /\ Kept
<1>1. tokens' = tokens /\ calls' = calls /\ jobs' = jobs /\ sent' = sent /\ faults' = faults
      /\ method' = method /\ stock' = stock /\ total' = total
    BY DEF Open, Close, ResetState, Back, Choose, vars, serverVars, boundVars, stockVars
<1>2. /\ panel' \in {"closed", "open", "leaving"} /\ timers' \in 0 .. MaxClosed
      /\ step' \in {"input", "validating", "confirm", "creating", "success"}
      /\ choice' \in Choices \cup {Nothing} /\ shown' \in 0 .. Len(tokens)
    <2>1. Default[method] \in Choices \cup {Nothing}
        BY WizardAssumption DEF WizardAssumption, TypeInv, Typed, Simple
    <2>2. Len(tokens) \in Nat
        BY Tokens DEF TypeInv
    <2> QED
        BY <2>1, <2>2, WizardAssumption
           DEF Open, Close, ResetState, Back, Choose, vars, Wiped, NoToken, TypeInv, Typed, Simple,
               WizardAssumption
<1>3. Kept
    BY <1>1, Tokens DEF Kept, TypeInv
<1>4. Typed'
    BY <1>1, <1>2 DEF TypeInv, Typed, Simple
<1> QED
    BY <1>1, <1>3, <1>4 DEF TypeInv, CallInv

LEMMA UnmountStep == ASSUME TypeInv, Unmount PROVE TypeInv' /\ Kept
<1>1. tokens' = tokens /\ Kept
    BY Tokens DEF Unmount, serverVars, Kept, TypeInv
<1>2. calls' \subseteq CallSet(Len(tokens))
    BY Unheeded DEF Unmount
<1>3. \A c \in calls' : CallInv(c)'
    BY <1>1, Unheeded, CallKept DEF Unmount
<1>4. choice' \in Choices \cup {Nothing} /\ shown' \in 0 .. Len(tokens)
    BY Tokens, WizardAssumption
       DEF WizardAssumption, TypeInv, Typed, Simple, Unmount, Wiped, NoToken
<1>5. Typed'
    BY <1>1, <1>2, <1>4, WizardAssumption
       DEF Unmount, Wiped, serverVars, boundVars, stockVars, TypeInv, Typed, Simple,
           WizardAssumption
<1> QED
    BY <1>1, <1>3, <1>5 DEF TypeInv

LEMMA SendStep == ASSUME TypeInv, Validate \/ Create PROVE TypeInv' /\ Kept
<1>1. tokens' = tokens /\ Kept
    BY Tokens DEF Validate, Create, Send, serverVars, Kept, TypeInv
<1>2. PICK kind \in {"validate", "create"}, token \in 0 .. Len(tokens) :
        /\ Send(kind, token)
        /\ kind = "validate" => choice # Nothing
        /\ kind = "create" => token # NoToken
        /\ step' \in {"validating", "creating"}
    BY Tokens DEF Validate, Create, NoToken, TypeInv, Typed
<1>3. sent' \in 1 .. MaxCalls
    BY <1>2, WizardAssumption DEF Send, More, WizardAssumption, TypeInv, Typed, Simple
<1>4. PICK new : /\ calls' = calls \cup {new}
                 /\ new = [id |-> sent', kind |-> kind, at |-> "sent", choice |-> choice,
                           token |-> token, heard |-> TRUE]
    BY <1>2 DEF Send
<1>5. new \in CallSet(Len(tokens)) /\ CallInv(new)'
    <2>1. choice \in Choices \cup {Nothing}
        BY DEF TypeInv, Typed, Simple
    <2>2. new \in CallSet(Len(tokens))
        BY <1>3, <1>4, <2>1 DEF CallSet
    <2>3. new.kind = kind /\ new.at = "sent" /\ new.choice = choice /\ new.token = token
        BY <1>4
    <2> QED
        BY <1>2, <2>1, <2>2, <2>3 DEF CallInv
<1>6. calls' \subseteq CallSet(Len(tokens)) /\ \A c \in calls' : CallInv(c)'
    <2>1. \A c \in calls : CallInv(c)'
        BY <1>1, CallKept DEF SameRequest
    <2>2. calls' = calls \cup {new}
        BY <1>4
    <2> QED
        BY <1>5, <2>1, <2>2, CallsTyped
<1>7. Typed'
    BY <1>1, <1>2, <1>3, <1>6 DEF Send, serverVars, stockVars, TypeInv, Typed, Simple
<1> QED
    BY <1>1, <1>6, <1>7 DEF TypeInv

LEMMA AnswerStep ==
    ASSUME TypeInv, NEW call \in calls, Answer(call) \/ AnswerLost(call)
    PROVE  TypeInv' /\ Kept
<1>1. tokens' = tokens /\ Kept
    <2>1. tokens' = tokens
        BY DEF Answer, AnswerLost, serverVars
    <2> QED
        BY <2>1, Tokens DEF Kept, TypeInv
<1>2. calls' \subseteq CallSet(Len(tokens)) /\ \A c \in calls' : CallInv(c)'
    <2>1. calls' \subseteq calls \cup Unheard({call})
        BY DEF Answer, AnswerLost
    <2> QED
        BY <1>1, <2>1, CallsTyped, Unheeded, CallKept DEF SameRequest
<1>3. /\ step' \in {"input", "validating", "confirm", "creating", "success"}
      /\ shown' \in 0 .. Len(tokens)
    <2>1. call.token \in 0 .. Len(tokens)
        BY CallsTyped DEF CallSet
    <2>2. PICK ok \in BOOLEAN : Settles(call, ok)
        BY DEF Answer, AnswerLost
    <2> QED
        BY <2>1, <2>2 DEF Settles, TypeInv, Typed, Simple
<1>4. faults' \in 0 .. MaxFaults
    <2>1. faults \in 0 .. MaxFaults /\ MaxFaults \in Nat
        BY WizardAssumption DEF WizardAssumption, TypeInv, Typed, Simple
    <2>2. faults' = faults \/ Fault
        BY DEF Answer, AnswerLost, boundVars
    <2> QED
        BY <2>1, <2>2 DEF Fault
<1>5. Typed'
    BY <1>1, <1>2, <1>3, <1>4
       DEF Answer, AnswerLost, serverVars, boundVars, stockVars, TypeInv, Typed, Simple
<1> QED
    BY <1>1, <1>2, <1>5 DEF TypeInv

LEMMA JobsKept == ASSUME TypeInv, Kept, Len(tokens') \in Nat PROVE jobs \subseteq JobSet(Len(tokens'))
BY Tokens, Widened DEF TypeInv, Typed, Kept

LEMMA ServeValidateStep ==
    ASSUME TypeInv, NEW call \in calls, ServeValidate(call)
    PROVE  TypeInv' /\ Kept
<1>1. tokens' \in Seq(TokenSet) /\ Kept
    BY Issued
<1>2. Len(tokens) \in Nat /\ Len(tokens') \in Nat /\ Len(tokens) <= Len(tokens')
    BY <1>1, Tokens, LenProperties DEF TypeInv, Kept
<1>3. PICK place, token : /\ place \in {"ok", "error"} /\ token \in 0 .. Len(tokens')
                          /\ Moves(call, place, token)
    BY <1>2 DEF ServeValidate, NoToken
<1>4. /\ calls' \subseteq CallSet(Len(tokens'))
      /\ \A c \in calls' : c \in calls \/ (c.kind = call.kind /\ c.choice = call.choice)
    <2>1. place \in Places
        BY <1>3 DEF Places
    <2>2. calls \subseteq CallSet(Len(tokens')) /\ call \in CallSet(Len(tokens'))
        BY <1>2, CallsTyped, Widened
    <2>3. /\ At(call, place, token) \in CallSet(Len(tokens'))
          /\ At(call, place, token).kind = call.kind
          /\ At(call, place, token).choice = call.choice
        BY <1>2, <1>3, <2>1, <2>2, Moved
    <2>4. calls' \subseteq calls \cup {At(call, place, token)}
        BY <1>3 DEF Moves, At
    <2> QED
        BY <2>2, <2>3, <2>4
<1>5. ASSUME NEW c \in calls' PROVE CallInv(c)'
    <2>1. CASE c \in calls
        BY <1>1, <2>1, CallKept DEF SameRequest
    <2>2. CASE c.kind = call.kind /\ c.choice = call.choice
        <3>1. call.kind = "validate" /\ call.choice \in Choices
            BY DEF ServeValidate, TypeInv, CallInv
        <3> QED
            BY <2>2, <3>1 DEF CallInv
    <2> QED
        BY <1>4, <2>1, <2>2
<1>6. faults' \in 0 .. MaxFaults
    <2>1. faults \in 0 .. MaxFaults /\ MaxFaults \in Nat
        BY WizardAssumption DEF WizardAssumption, TypeInv, Typed, Simple
    <2>2. faults' = faults \/ Fault
        BY DEF ServeValidate
    <2> QED
        BY <2>1, <2>2 DEF Fault
<1>7. jobs' \subseteq JobSet(Len(tokens')) /\ shown' \in 0 .. Len(tokens')
    <2>1. jobs' = jobs /\ shown' = shown /\ shown \in 0 .. Len(tokens)
        BY DEF ServeValidate, panelVars, TypeInv, Typed
    <2> QED
        BY <1>1, <1>2, <2>1, JobsKept
<1>8. Simple'
    BY <1>6 DEF ServeValidate, panelVars, stockVars, TypeInv, Typed, Simple
<1> QED
    BY <1>1, <1>4, <1>5, <1>7, <1>8 DEF TypeInv, Typed

\* A creation that has found no job may only find that now.
LEMMA ServeCreateStep ==
    ASSUME TypeInv, NEW call \in calls, ServeFind(call) \/ Busy(call) \/ ServeCreate(call)
    PROVE  TypeInv' /\ Kept
<1>1. tokens' = tokens
    BY DEF ServeFind, Busy, ServeCreate, serverVars
<1>2. Kept
    BY <1>1, Tokens DEF Kept, TypeInv
<1>3. /\ call \in CallSet(Len(tokens)) /\ Len(tokens) \in Nat
      /\ call.kind = "create" /\ call.token # 0 /\ CallInv(call)
    BY CallsTyped, Tokens DEF ServeFind, Busy, ServeCreate, TypeInv, CallInv, NoToken
<1>4. call.id \in 1 .. MaxCalls /\ call.token \in 0 .. Len(tokens)
    BY <1>3 DEF CallSet
<1>5. call.token \in 1 .. Len(tokens)
    BY <1>3, <1>4
<1>6. PICK place :
        /\ place \in {"found none", "ok", "error"}
        /\ Moves(call, place, call.token)
        /\ place = "found none" => tokens[call.token].choice = call.choice
    BY DEF ServeFind, Busy, ServeCreate, Accepts
<1>7. /\ calls' \subseteq CallSet(Len(tokens))
      /\ \A c \in calls' : \/ c \in calls
                           \/ /\ c.kind = call.kind /\ c.choice = call.choice
                              /\ c.at = place /\ c.token = call.token
    <2>0. place \in Places
        BY <1>6 DEF Places
    <2>1. /\ At(call, place, call.token) \in CallSet(Len(tokens))
          /\ At(call, place, call.token).kind = call.kind
          /\ At(call, place, call.token).choice = call.choice
          /\ At(call, place, call.token).at = place
          /\ At(call, place, call.token).token = call.token
        BY <1>3, <1>4, <2>0, Moved
    <2>2. calls' \subseteq calls \cup {At(call, place, call.token)}
        BY <1>6 DEF Moves, At
    <2> QED
        BY <2>1, <2>2, CallsTyped
<1>8. ASSUME NEW c \in calls' PROVE CallInv(c)'
    <2>1. CASE c \in calls
        BY <1>2, <2>1, CallKept DEF SameRequest
    <2>2. CASE /\ c.kind = call.kind /\ c.choice = call.choice
               /\ c.at = place /\ c.token = call.token
        BY <1>1, <1>3, <1>6, <2>2 DEF CallInv, NoToken
    <2> QED
        BY <1>7, <2>1, <2>2
<1>9. jobs' \subseteq JobSet(Len(tokens))
    <2>1. jobs \subseteq JobSet(Len(tokens))
        BY DEF TypeInv, Typed
    <2>2. CASE ServeFind(call) \/ Busy(call) \/ jobs' = jobs
        BY <2>1, <2>2 DEF ServeFind, Busy, serverVars
    <2>3. CASE ServeCreate(call) /\ jobs' # jobs
        <3>1. PICK status \in {"queued", "not queued"} : NewJob(call, status)
            BY <2>3 DEF ServeCreate
        <3>2. tokens[call.token].choice = call.choice
            BY <1>3, <2>3 DEF ServeCreate, CallInv
        <3>3. call.choice \in Choices
            <4>1. tokens[call.token] \in TokenSet
                BY <1>5, Tokens DEF TypeInv
            <4> QED
                BY <3>2, <4>1 DEF TokenSet
        <3>4. [id |-> call.id, token |-> call.token, choice |-> call.choice,
               status |-> status] \in JobSet(Len(tokens))
            BY <1>4, <1>5, <3>3 DEF JobSet
        <3> QED
            BY <2>1, <3>1, <3>4 DEF NewJob
    <2> QED
        BY <2>2, <2>3
<1>10. faults' \in 0 .. MaxFaults
    <2>1. faults \in 0 .. MaxFaults /\ MaxFaults \in Nat
        BY WizardAssumption DEF WizardAssumption, TypeInv, Typed, Simple
    <2>2. faults' = faults \/ Fault
        BY DEF ServeFind, Busy, ServeCreate, boundVars
    <2>3. CASE faults' = faults + 1 /\ faults < MaxFaults
        BY <2>1, <2>3
    <2> QED
        BY <2>1, <2>2, <2>3 DEF Fault
<1>11. Simple' /\ shown' = shown
    BY <1>10
       DEF ServeFind, Busy, ServeCreate, panelVars, boundVars, stockVars, TypeInv, Typed, Simple
<1> QED
    BY <1>1, <1>2, <1>7, <1>8, <1>9, <1>11 DEF TypeInv, Typed

LEMMA OtherStep ==
    ASSUME TypeInv,
           \/ \E job \in jobs : Resolve(job)
           \/ \E t \in DOMAIN tokens : Expire(t)
           \/ \E c \in Choices : StockChanges(c)
    PROVE  TypeInv' /\ Kept
<1>1. tokens' \in Seq(TokenSet) /\ Kept /\ Len(tokens') = Len(tokens)
    <2>1. CASE \E job \in jobs : Resolve(job)
        BY <2>1, Tokens DEF Resolve, Kept, TypeInv
    <2> QED
        BY <2>1, Expired, Stale
<1>2. calls' = calls /\ shown' = shown
    BY DEF Resolve, Expire, StockChanges, panelVars
<1>3. \A c \in calls' : CallInv(c)'
    BY <1>1, <1>2, CallKept DEF SameRequest
<1>4. jobs' \subseteq JobSet(Len(tokens))
    <2>1. jobs \subseteq JobSet(Len(tokens))
        BY DEF TypeInv, Typed
    <2>2. ASSUME NEW job \in jobs, Resolve(job) PROVE jobs' \subseteq JobSet(Len(tokens))
        <3>1. job \in JobSet(Len(tokens))
            BY <2>1
        <3>2. \A status \in {"refused", "made"} :
                [job EXCEPT !.status = status] \in JobSet(Len(tokens))
            BY <3>1 DEF JobSet
        <3> QED
            BY <2>1, <2>2, <3>2 DEF Resolve
    <2> QED
        BY <2>1, <2>2 DEF Expire, StockChanges
<1>5. faults' \in 0 .. MaxFaults
    <2>1. faults \in 0 .. MaxFaults /\ MaxFaults \in Nat
        BY WizardAssumption DEF WizardAssumption, TypeInv, Typed, Simple
    <2>2. faults' = faults \/ Fault
        BY DEF Resolve, Expire, StockChanges, boundVars
    <2> QED
        BY <2>1, <2>2 DEF Fault
<1>6. stock' \in [Choices -> Classes] /\ total' \in [Choices -> Classes]
    <2>1. stock \in [Choices -> Classes] /\ total \in [Choices -> Classes] /\ Levels \subseteq Classes
        BY DEF TypeInv, Typed, Simple, Levels, Classes
    <2> QED
        BY <2>1 DEF Resolve, Expire, StockChanges, stockVars
<1>7. Simple'
    BY <1>5, <1>6
       DEF Resolve, Expire, StockChanges, panelVars, boundVars, TypeInv, Typed, Simple
<1> QED
    BY <1>1, <1>2, <1>3, <1>4, <1>7 DEF TypeInv, Typed

LEMMA TypeNext == ASSUME TypeInv, [Next]_vars PROVE TypeInv' /\ Kept
BY PanelStep, UnmountStep, SendStep, AnswerStep, ServeValidateStep, ServeCreateStep, OtherStep
   DEF Next, Panel, Serve, Answers

LEMMA AlwaysTyped == Spec => []TypeInv
BY TypeInit, TypeNext, PTL DEF Spec

\* Every variable keeps its type, and the panel holds only a token that was issued
\* (shuffle-modal.tsx:112).
THEOREM TypeCorrect == Spec => []TypeOK
<1>1. TypeInv => TypeOK
    BY DEF TypeInv, Typed, Simple, TypeOK, TokenSet, CallSet, JobSet
<1> QED
    BY <1>1, AlwaysTyped, PTL

-----------------------------------------------------------------------------
\* Jobs.

\* Only ServeCreate adds a job, and only if its token has none; the worker changes
\* what has become of one.
LEMMA JobsNext ==
    ASSUME TypeInv, [Next]_vars
    PROVE  \/ UNCHANGED jobs
           \/ \E job \in jobs : Resolve(job)
           \/ \E call \in calls : /\ ServeCreate(call) /\ JobOf(call.token) = {}
                                 /\ \E status \in {"queued", "not queued"} : NewJob(call, status)
BY DEF Next, Panel, Serve, Answers, vars, serverVars, Open, Close, ResetState, Unmount, Back,
       Choose, Validate, Create, Send, Answer, AnswerLost, ServeValidate, ServeFind, Busy,
       ServeCreate, Expire, StockChanges

\* A job is one of those there were, apart from its status, or the new one.
LEMMA JobsTraced ==
    ASSUME TypeInv, [Next]_vars, NEW j \in jobs'
    PROVE  \/ \E i \in jobs : i.id = j.id /\ i.token = j.token /\ i.choice = j.choice
           \/ /\ j.choice = tokens[j.token].choice /\ j.token \in DOMAIN tokens
              /\ JobOf(j.token) = {} /\ j.status # "refused"
              /\ \A i \in jobs' : i.token = j.token => i = j
<1>1. CASE UNCHANGED jobs
    BY <1>1
<1>2. ASSUME NEW job \in jobs, Resolve(job)
      PROVE  \E i \in jobs : i.id = j.id /\ i.token = j.token /\ i.choice = j.choice
    <2>1. job \in JobSet(Len(tokens))
        BY DEF TypeInv, Typed
    <2>2. PICK status : jobs' = (jobs \ {job}) \cup {[job EXCEPT !.status = status]}
        BY <1>2 DEF Resolve
    <2>3. /\ [job EXCEPT !.status = status].id = job.id
          /\ [job EXCEPT !.status = status].token = job.token
          /\ [job EXCEPT !.status = status].choice = job.choice
        BY <2>1 DEF JobSet
    <2> QED
        BY <2>2, <2>3
<1>3. ASSUME NEW call \in calls, ServeCreate(call), JobOf(call.token) = {},
             \E status \in {"queued", "not queued"} : NewJob(call, status), j \notin jobs
      PROVE  /\ j.choice = tokens[j.token].choice /\ j.token \in DOMAIN tokens
             /\ JobOf(j.token) = {} /\ j.status # "refused"
             /\ \A i \in jobs' : i.token = j.token => i = j
    <2>1. PICK status : status \in {"queued", "not queued"} /\ NewJob(call, status)
        BY <1>3
    <2>2. /\ j.token = call.token /\ j.choice = call.choice /\ j.status = status
          /\ jobs' = jobs \cup {j}
        <3>1. PICK new : /\ jobs' = jobs \cup {new}
                         /\ new = [id |-> call.id, token |-> call.token,
                                   choice |-> call.choice, status |-> status]
            BY <2>1 DEF NewJob
        <3>2. j = new
            BY <1>3, <3>1
        <3> QED
            BY <3>1, <3>2
    <2>3. tokens[call.token].choice = call.choice /\ call.token # 0
        BY <1>3 DEF ServeCreate, TypeInv, CallInv, NoToken
    <2>4. call.token \in 0 .. Len(tokens)
        BY CallsTyped DEF CallSet
    <2>5. call.token \in DOMAIN tokens
        <3>1. DOMAIN tokens = 1 .. Len(tokens) /\ Len(tokens) \in Nat
            BY Tokens DEF TypeInv
        <3>2. call.token # 0
            BY <2>3
        <3> QED
            BY <2>4, <3>1, <3>2
    <2>6. \A i \in jobs : i.token # call.token
        BY <1>3 DEF JobOf
    <2> QED
        BY <1>3, <2>1, <2>2, <2>3, <2>5, <2>6
<1> QED
    BY <1>1, <1>2, <1>3, JobsNext

\* What is created is what was validated (shuffle-modal.tsx:123, playlists.ts:311).
THEOREM CreatedAsValidatedCorrect == Spec => []CreatedAsValidated
<1>1. Init => CreatedAsValidated
    BY DEF Init, CreatedAsValidated
<1>2. ASSUME TypeInv, CreatedAsValidated, [Next]_vars PROVE CreatedAsValidated'
    <2>1. SUFFICES ASSUME NEW j \in jobs' PROVE j.choice = tokens'[j.token].choice
        BY DEF CreatedAsValidated
    <2>2. Kept
        BY <1>2, TypeNext
    <2>3. \A i \in jobs : i.token \in DOMAIN tokens
        <3>1. \A i \in jobs : i.token \in 1 .. Len(tokens)
            BY <1>2 DEF TypeInv, Typed, JobSet
        <3> QED
            BY <1>2, <3>1, Tokens DEF TypeInv
    <2>4. j.choice = tokens[j.token].choice /\ j.token \in DOMAIN tokens
        BY <1>2, <2>3, JobsTraced DEF CreatedAsValidated
    <2> QED
        BY <2>2, <2>4 DEF Kept
<1> QED
    BY <1>1, <1>2, AlwaysTyped, PTL DEF Spec

-----------------------------------------------------------------------------
\* Warnings.

\* Who was not warned has enough tracks, unless something has changed since, or the
\* validation counted what the worker cannot use.
Told(t) ==
    tokens[t].warned \/ tokens[t].stale
        \/ (method = "shuffle" /\ tokens[t].partial) \/ stock[tokens[t].choice] >= 25

LEMMA Warns ==
    ASSUME TypeInv, NEW call \in calls, ServeValidate(call), NEW t \in DOMAIN tokens',
           t \notin DOMAIN tokens
    PROVE  Told(t)'
<1> DEFINE c == call.choice
           token == [choice |-> c, warned |-> Warned(Counted(c)), expired |-> FALSE,
                     stale |-> FALSE, partial |-> Counted(c) # stock[c]]
<1>1. ~UNCHANGED tokens
    OBVIOUS
<1>2. ~Refused(Counted(c)) /\ tokens' = Append(tokens, token)
    BY <1>1 DEF ServeValidate
<1>3. call.kind = "validate" /\ c \in Choices
    BY DEF ServeValidate, TypeInv, CallInv
<1>4. token \in TokenSet
    <2>1. Warned(Counted(c)) \in BOOLEAN /\ (Counted(c) # stock[c]) \in BOOLEAN
        BY DEF Warned
    <2> QED
        BY <1>3, <2>1 DEF TokenSet
<1>5. tokens'[t] = token
    <2> HIDE DEF token
    <2>1. tokens \in Seq(TokenSet) /\ DOMAIN tokens = 1 .. Len(tokens) /\ Len(tokens) \in Nat
        BY Tokens DEF TypeInv
    <2>2. /\ Append(tokens, token) \in Seq(TokenSet)
          /\ Len(Append(tokens, token)) = Len(tokens) + 1
          /\ Append(tokens, token)[Len(tokens) + 1] = token
        BY <1>4, <2>1, AppendProperties
    <2>3. DOMAIN tokens' = 1 .. Len(tokens) + 1
        BY <1>2, <2>2, LenProperties
    <2>4. t = Len(tokens) + 1
        BY <2>1, <2>3
    <2> QED
        BY <1>2, <2>2, <2>4
<1>6. /\ tokens'[t].choice = c /\ tokens'[t].warned = Warned(Counted(c))
      /\ tokens'[t].partial = (Counted(c) # stock[c])
    BY <1>5
<1>7. method' = method /\ stock' = stock
    BY DEF ServeValidate, stockVars
<1>8. stock[c] \in Classes /\ method \in {"shuffle", "recent", "top50"}
    BY <1>3 DEF TypeInv, Typed, Simple
<1>9. \/ Warned(Counted(c)) \/ (method = "shuffle" /\ Counted(c) # stock[c])
      \/ stock[c] >= 25
    BY <1>2, <1>8 DEF Warned, Refused, Counted, Classes
<1> QED
    BY <1>6, <1>7, <1>9 DEF Told

LEMMA ToldNext == ASSUME TypeInv, \A t \in DOMAIN tokens : Told(t), [Next]_vars
                  PROVE  \A t \in DOMAIN tokens' : Told(t)'
<1> SUFFICES ASSUME NEW t \in DOMAIN tokens' PROVE Told(t)'
    OBVIOUS
<1>1. Kept
    BY TypeNext
<1>2. method' = method
    BY DEF Next, Panel, Serve, Answers, vars, Open, Close, ResetState, Unmount, Back, Choose,
           Validate, Create, Send, Answer, AnswerLost, ServeValidate, ServeFind, Busy,
           ServeCreate, Resolve, Expire, StockChanges
<1>3. CASE t \in DOMAIN tokens
    <2>1. Told(t)
        BY <1>3
    <2>2. CASE UNCHANGED stock
        BY <1>1, <1>2, <1>3, <2>1, <2>2 DEF Told, Kept
    <2>3. CASE \E c \in Choices : StockChanges(c)
        <3>1. PICK c \in Choices : StockChanges(c)
            BY <2>3
        <3>2. CASE tokens[t].choice = c
            BY <1>3, <3>1, <3>2, Stale DEF Told
        <3>3. CASE tokens[t].choice # c
            <4>1. tokens[t] \in TokenSet
                BY <1>3, Tokens DEF TypeInv
            <4>2. stock'[tokens[t].choice] = stock[tokens[t].choice]
                BY <3>1, <3>3, <4>1 DEF StockChanges, TokenSet, TypeInv, Typed, Simple
            <4> QED
                BY <1>1, <1>2, <1>3, <2>1, <4>2 DEF Told, Kept
        <3> QED
            BY <3>2, <3>3
    <2> QED
        BY <2>2, <2>3
           DEF Next, Panel, Serve, Answers, vars, stockVars, Open, Close, ResetState, Unmount,
               Back, Choose, Validate, Create, Send, Answer, AnswerLost, ServeValidate,
               ServeFind, Busy, ServeCreate, Resolve, Expire
<1>4. CASE t \notin DOMAIN tokens
    <2>1. CASE \E call \in calls : ServeValidate(call)
        BY <1>4, <2>1, Warns
    <2>2. CASE Len(tokens') = Len(tokens) /\ tokens' \in Seq(TokenSet)
        BY <1>4, <2>2, Tokens, LenProperties DEF TypeInv
    <2>3. CASE UNCHANGED tokens
        BY <1>4, <2>3
    <2> QED
        BY <2>1, <2>2, <2>3, Expired, Stale
           DEF Next, Panel, Serve, Answers, vars, serverVars, Open, Close, ResetState,
               Unmount, Back, Choose, Validate, Create, Send, Answer, AnswerLost, ServeFind,
               Busy, ServeCreate, Resolve
<1> QED
    BY <1>3, <1>4

LEMMA RefusedNext ==
    ASSUME TypeInv, CreatedAsValidated, \A t \in DOMAIN tokens : Told(t), RefusedWasWarned,
           [Next]_vars
    PROVE  RefusedWasWarned'
<1> SUFFICES ASSUME NEW j \in jobs', j.status = "refused"
             PROVE  \/ tokens'[j.token].warned \/ tokens'[j.token].stale
                    \/ method' = "shuffle" /\ tokens'[j.token].partial
    BY DEF RefusedWasWarned
<1>1. Kept
    BY TypeNext
<1>2. method' = method
    BY DEF Next, Panel, Serve, Answers, vars, Open, Close, ResetState, Unmount, Back, Choose,
           Validate, Create, Send, Answer, AnswerLost, ServeValidate, ServeFind, Busy,
           ServeCreate, Resolve, Expire, StockChanges
<1>3. ASSUME NEW i \in jobs
      PROVE  i.token \in DOMAIN tokens /\ i.choice = tokens[i.token].choice /\ i \in JobSet(Len(tokens))
    <2>1. i \in JobSet(Len(tokens))
        BY DEF TypeInv, Typed
    <2>2. i.token \in 1 .. Len(tokens)
        BY <2>1 DEF JobSet
    <2> QED
        BY <2>1, <2>2, Tokens DEF TypeInv, CreatedAsValidated
<1>4. CASE j \in jobs
    <2>1. \/ tokens[j.token].warned \/ tokens[j.token].stale
          \/ method = "shuffle" /\ tokens[j.token].partial
        BY <1>4 DEF RefusedWasWarned
    <2> QED
        BY <1>1, <1>2, <1>3, <1>4, <2>1 DEF Kept
<1>5. CASE j \notin jobs /\ \E job \in jobs : Resolve(job)
    <2>1. PICK job \in jobs : Resolve(job)
        BY <1>5
    <2>2. stock[job.choice] < 25 /\ j.token = job.token /\ j.choice = job.choice
        <3>1. PICK new : /\ jobs' = (jobs \ {job}) \cup {new}
                         /\ new = [job EXCEPT !.status = IF stock[job.choice] < 25
                                                         THEN "refused" ELSE "made"]
            BY <2>1 DEF Resolve
        <3>2. j = new
            BY <1>5, <3>1
        <3>3. job \in JobSet(Len(tokens))
            BY <1>3
        <3> QED
            BY <3>1, <3>2, <3>3 DEF JobSet
    <2>3. /\ job.token \in DOMAIN tokens /\ job.choice = tokens[job.token].choice
          /\ job \in JobSet(Len(tokens))
        BY <1>3
    <2>4. stock[job.choice] \in Nat
        <3>1. job.choice \in Choices
            BY <2>3 DEF JobSet
        <3>2. stock[job.choice] \in Classes
            BY <3>1 DEF TypeInv, Typed, Simple
        <3> QED
            BY <3>2 DEF Classes
    <2>5. Told(job.token)
        BY <2>3
    <2>6. \/ tokens[job.token].warned \/ tokens[job.token].stale
          \/ method = "shuffle" /\ tokens[job.token].partial
        BY <2>2, <2>3, <2>4, <2>5 DEF Told
    <2> QED
        BY <1>1, <1>2, <2>2, <2>3, <2>6 DEF Kept
<1>6. CASE j \notin jobs /\ \E call \in calls :
            /\ ServeCreate(call) /\ JobOf(call.token) = {}
            /\ \E status \in {"queued", "not queued"} : NewJob(call, status)
    <2>1. PICK call, status :
            call \in calls /\ status \in {"queued", "not queued"} /\ NewJob(call, status)
        BY <1>6
    <2>2. PICK new : /\ jobs' = jobs \cup {new}
                     /\ new = [id |-> call.id, token |-> call.token,
                               choice |-> call.choice, status |-> status]
        BY <2>1 DEF NewJob
    <2>3. j = new
        BY <1>6, <2>2
    <2>4. j.status = status
        BY <2>2, <2>3
    <2> QED
        BY <2>1, <2>4
<1> QED
    BY <1>4, <1>5, <1>6, JobsNext

\* A playlist refused for want of tracks is one the user was warned about, or something
\* has changed since, or the validation of a playlist to shuffle counted items the worker
\* drops (playlists.ts:134, 203, 270, playlist-service.ts:102).
THEOREM RefusedWasWarnedCorrect == Spec => []RefusedWasWarned
<1>1. Init => (\A t \in DOMAIN tokens : Told(t)) /\ RefusedWasWarned
    BY DEF Init, RefusedWasWarned
<1>2. TypeInv /\ (\A t \in DOMAIN tokens : Told(t)) /\ [Next]_vars
        => (\A t \in DOMAIN tokens : Told(t))'
    BY ToldNext
<1>3. TypeInv /\ CreatedAsValidated /\ (\A t \in DOMAIN tokens : Told(t)) /\ RefusedWasWarned
        /\ [Next]_vars => RefusedWasWarned'
    BY RefusedNext
<1> QED
    BY <1>1, <1>2, <1>3, AlwaysTyped, CreatedAsValidatedCorrect, PTL DEF Spec

=============================================================================
