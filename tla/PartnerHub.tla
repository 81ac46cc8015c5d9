------------------------------- MODULE PartnerHub -------------------------------
(***************************************************************************)
(* The onboarding of a partner's API by configuration, test and activation *)
(* (app/api/partner.py), and the webhooks of an active partner             *)
(* (app/api/partner_webhooks.py).                                          *)
(*                                                                         *)
(* A call reads the row, waits for the database, for the partner's API or  *)
(* for the body of a webhook, and then writes by what it has read.  Nothing *)
(* is locked meanwhile, the version it counts is never compared, and       *)
(* nothing keeps an invite from getting a second row.                      *)
(***************************************************************************)
EXTENDS Naturals

CONSTANTS
    Invites,     \* rows of partner_invites
    Connectors,  \* rows of partner_integrations, each with a provider_key of its own
    InviteOf,    \* [Connectors -> Invites], the invite a row is saved with
    DomainOf,    \* [Invites -> service domains]
    Clients,     \* requests that can be in flight together
    Events,      \* webhook events: a provider_key and an x-event-id
    ConnectorOf, \* [Events -> Connectors], the provider_key they are sent to
    Idle,        \* no request, no token
    Replaced     \* stands for a secret that is no longer saved

ASSUME InviteAssumption == InviteOf \in [Connectors -> Invites]
ASSUME EventAssumption == ConnectorOf \in [Events -> Connectors]
ASSUME SecretAssumption == Idle \notin Connectors /\ Replaced \notin Connectors \cup {Idle}

VARIABLES
    invite,   \* partner_invites: consumed_at and expires_at
    row,      \* partner_integrations
    token,    \* the row whose secret earned the token held for the invite's client_id
    event,    \* partner_webhook_events
    call      \* the requests in flight

vars == <<invite, row, token, event, call>>

InviteStatus == {"none", "open", "consumed", "expired"}
Tested == {"none", "failed", "health", "operation"}
Operation == {"insert", "update", "test", "activate", "webhook"}
Token == Connectors \cup {Idle, Replaced}

\* What speaks for an active row, none of it stored: an operation test passed with
\* this very configuration; a call that had read an older one marked or enabled it;
\* such a test passed with a token that another secret had earned.
Ground == {"none", "tested", "slipped", "cached"}

\* test: last_test_status and last_test_operation.
Row == [saved : BOOLEAN, enabled : BOOLEAN, test : Tested, ground : Ground]

NoRow == [saved |-> FALSE, enabled |-> FALSE, test |-> "none", ground |-> "none"]

\* stale: what the request has read of the row is now replaced.
Call == [of : Connectors, op : Operation, stale : BOOLEAN]

\* verification_status; "late" is a verified event whose connector has been
\* saved anew or disabled since the request read it.
Recording == {"none", "rejected", "verified", "late"}

Init ==
    /\ invite = [i \in Invites |-> "none"]
    /\ row = [k \in Connectors |-> NoRow]
    /\ token = [i \in Invites |-> Idle]
    /\ event = [e \in Events |-> "none"]
    /\ call = [c \in Clients |-> Idle]

-----------------------------------------------------------------------------
(* Mistakes the properties are tested against.                             *)

KeepsEnabled(k) == [NoRow EXCEPT !.saved = TRUE, !.enabled = row[k].enabled]
EnabledToo(k, stale) ==
    [row EXCEPT ![k].enabled = TRUE, ![k].ground = IF stale THEN "slipped" ELSE @]
LoadedAnyway(k) == row[k].saved

-----------------------------------------------------------------------------

\* External: an invite put into the database.  create_partner_invite cannot do
\* it, its guard reads a setting that does not exist.
InviteInserted(i) ==
    /\ invite[i] = "none"
    /\ invite' = [invite EXCEPT ![i] = "open"]
    /\ UNCHANGED <<row, token, event, call>>

InviteExpires(i) ==
    /\ invite[i] = "open"
    /\ invite' = [invite EXCEPT ![i] = "expired"]
    /\ UNCHANGED <<row, token, event, call>>

\* _invite.
Usable(i) == invite[i] = "open"

\* The rows _saved may come back with: one of them, in no order.
SavedOf(i) == {k \in Connectors : row[k].saved /\ InviteOf[k] = i}

\* The gate of activate.
Ready(k) == row[k].test = "operation"

Reads(c, k, op) ==
    /\ call[c] = Idle
    /\ call' = [call EXCEPT ![c] = [of |-> k, op |-> op, stale |-> FALSE]]
    /\ UNCHANGED <<invite, row, token, event>>

\* _invite and _saved: what a request reads before it writes.
Begin(c, k, op) ==
    /\ Usable(InviteOf[k])
    /\ \/ op = "insert" /\ SavedOf(InviteOf[k]) = {}
       \/ op \in {"update", "test"} /\ k \in SavedOf(InviteOf[k])
       \/ op = "activate" /\ k \in SavedOf(InviteOf[k]) /\ Ready(k)
    /\ Reads(c, k, op)

Ends(c, op) == call[c] # Idle /\ call[c].op = op

\* The request is cancelled, refused by the partner's host or the database, or
\* its process dies: nothing is committed.
Dropped(c) ==
    /\ call[c] # Idle
    /\ call' = [call EXCEPT ![c] = Idle]
    /\ UNCHANGED <<invite, row, token, event>>

\* What save makes of a row.
Reset(k) == [NoRow EXCEPT !.saved = TRUE]

\* Request c is over, and the readers of what it replaced are out of date.
Outdated(c, readers) ==
    [d \in Clients |->
        IF d = c THEN Idle
        ELSE IF d \in readers THEN [call[d] EXCEPT !.stale = TRUE]
        ELSE call[d]]

\* The insert of save.  A row that came meanwhile with the same provider_key
\* makes the unique index refuse it, one with another key does not.
EndInsert(c) ==
    /\ Ends(c, "insert")
    /\ LET k == call[c].of IN
       row' = IF row[k].saved THEN row ELSE [row EXCEPT ![k] = Reset(k)]
    /\ call' = [call EXCEPT ![c] = Idle]
    /\ UNCHANGED <<invite, token, event>>

\* The update of save, with another secret under the same token_url and client_id.
EndUpdate(c) ==
    /\ Ends(c, "update")
    /\ LET k == call[c].of
           readers == {d \in Clients : call[d] # Idle /\ call[d].of = k}
       IN
       /\ row' = [row EXCEPT ![k] = Reset(k)]
       /\ token' = [token EXCEPT ![InviteOf[k]] = IF @ = k THEN Replaced ELSE @]
       /\ call' = Outdated(c, readers)
    /\ UNCHANGED <<invite, event>>

\* The token a request uses: the one held, if there is one, else one it earns.
Earned(k, stale) ==
    IF token[InviteOf[k]] # Idle THEN token[InviteOf[k]]
    ELSE IF stale THEN Replaced ELSE k

\* execute_partner came back with an answer of the partner.
Executed(result) == result = "operation"

\* What a passed operation test shows.
Shown(k, stale) ==
    IF stale THEN "slipped" ELSE IF Earned(k, stale) = k THEN "tested" ELSE "cached"

\* test: health, or an operation through execute_partner, which passes or fails.
EndTest(c, result) ==
    /\ Ends(c, "test") /\ result # "none"
    /\ LET k == call[c].of
           stale == call[c].stale
       IN
       /\ row' = [row EXCEPT
                    ![k].test = result,
                    ![k].ground = IF Executed(result) THEN Shown(k, stale) ELSE @]
       /\ \/ result # "health" /\ token' = [token EXCEPT ![InviteOf[k]] = Earned(k, stale)]
          \/ UNCHANGED token
    /\ call' = [call EXCEPT ![c] = Idle]
    /\ UNCHANGED <<invite, event>>

\* Tokens expire, and go with the process.
TokenExpires(i) ==
    /\ token[i] # Idle
    /\ token' = [token EXCEPT ![i] = Idle]
    /\ UNCHANGED <<invite, row, event, call>>

SameDomain(j, k) == DomainOf[InviteOf[j]] = DomainOf[InviteOf[k]]

\* The two updates of activate: everything of the domain off, this row on.
EnabledAlone(k, stale) ==
    [j \in Connectors |->
        IF j = k
        THEN [row[j] EXCEPT !.enabled = TRUE, !.ground = IF stale THEN "slipped" ELSE @]
        ELSE IF SameDomain(j, k) THEN [row[j] EXCEPT !.enabled = FALSE]
        ELSE row[j]]

\* What it disables, a webhook may have loaded.
EndActivate(c) ==
    /\ Ends(c, "activate")
    /\ LET k == call[c].of
           readers == {d \in Clients : Ends(d, "webhook") /\ call[d].of # k
                                        /\ SameDomain(call[d].of, k)}
       IN
       /\ row' = EnabledAlone(k, call[c].stale)
       /\ invite' = [invite EXCEPT ![InviteOf[k]] = "consumed"]
       /\ call' = Outdated(c, readers)
    /\ UNCHANGED <<token, event>>

\* load_active_partner: what a service of the domain is executed with.
Active(domain) == {k \in Connectors : row[k].enabled /\ DomainOf[InviteOf[k]] = domain}

-----------------------------------------------------------------------------

\* load_active_partner_by_provider_key.
Loaded(k) == row[k].enabled

\* receive_webhook loads the connector, then waits for the body.
WebhookArrives(c, k) ==
    /\ Loaded(k)
    /\ Reads(c, k, "webhook")

\* verify_webhook and parse_webhook_payload, with what the request has loaded.
Verdict == {"verified", "rejected", "unreadable"}

\* record_webhook_event; the unique index on provider_key and event_id lets one
\* record of an event in, whatever its verdict was.
Recorded(e, verdict, stale) ==
    IF verdict = "unreadable" \/ event[e] # "none" THEN event
    ELSE [event EXCEPT ![e] = IF verdict = "verified" /\ stale THEN "late" ELSE verdict]

EndWebhook(c, e, verdict) ==
    /\ Ends(c, "webhook") /\ call[c].of = ConnectorOf[e]
    /\ event' = Recorded(e, verdict, call[c].stale)
    /\ call' = [call EXCEPT ![c] = Idle]
    /\ UNCHANGED <<invite, row, token>>

Next ==
    \/ \E i \in Invites : InviteInserted(i) \/ InviteExpires(i) \/ TokenExpires(i)
    \/ \E c \in Clients :
        \/ \E k \in Connectors, op \in Operation : Begin(c, k, op)
        \/ \E k \in Connectors : WebhookArrives(c, k)
        \/ \E result \in Tested : EndTest(c, result)
        \/ \E e \in Events, verdict \in Verdict : EndWebhook(c, e, verdict)
        \/ EndInsert(c) \/ EndUpdate(c) \/ EndActivate(c) \/ Dropped(c)

Spec == Init /\ [][Next]_vars

-----------------------------------------------------------------------------

TypeOK ==
    /\ invite \in [Invites -> InviteStatus]
    /\ row \in [Connectors -> Row]
    /\ token \in [Invites -> Token]
    /\ event \in [Events -> Recording]
    /\ call \in [Clients -> Call \cup {Idle}]

\* docs/NAHAOS_PARTNER_ONBOARDING.md:21 lets only a configuration with a passed
\* operation test be active.  One is active untested only if a request that had
\* read its predecessor marked or enabled it, or its own test was answered for a
\* token its secret had not earned (test, activate, token_cache).
UntestedOnlyBySlip ==
    \A k \in Connectors : row[k].enabled => row[k].ground # "none"

\* load_active_partner finds at most one row of a domain, whichever of them are
\* being saved, tested and activated meanwhile (activate, save).
OneActivePerDomain ==
    \A i \in Invites : \A j, k \in Active(DomainOf[i]) : j = k

\* receive_webhook records an event as verified while its connector is active, or
\* the request had loaded it before a save or another activation took it out of
\* service: no event of a retired or replaced connector comes in otherwise.
VerifiedWhileActive ==
    [][\A e \in Events :
        event[e] = "none" /\ event'[e] = "verified" => row[ConnectorOf[e]].enabled]_vars
=============================================================================
