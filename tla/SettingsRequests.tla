--------------------------- MODULE SettingsRequests ---------------------------
(***************************************************************************)
(* The requests about a workspace itself: settings, sealed secrets and     *)
(* Jira connection, the worker's write of the reconcile state, and the     *)
(* admin tool that makes several of these calls in a row.                  *)
(***************************************************************************)
EXTENDS AdminRequests

roster == <<agents, executors, template, runs, reviews, ticket>>
frame  == <<scene, served, again, resends, crashes>>

\* PUT :id/settings.  The fields of the request are one edit; the release
\* status and the instruction source have edits of their own, after it.
Rewrites(n) ==
  (IF n >= 1 THEN <<"blobRead", "blobWrite">> ELSE <<>>) \o
  (IF n >= 2 THEN <<"blobRead", "blobWrite">> ELSE <<>>)

SettingsPlan(edits, tok) ==
  <<"guard", "blobRead", "blobWrite">>
  \o (IF "repos" \in DOMAIN edits[1] THEN <<"prune">> ELSE <<>>)
  \o Rewrites(Len(edits) - 1)
  \o (IF tok # "keep" THEN <<"token">> ELSE <<>>)

\* PUT :id/env-secrets.
SecretsPlan(scope) ==
  IF scope[1] = "agent" THEN <<"rowRead", "agentRead", "secretsWrite">>
  ELSE <<"rowRead", "secretsWrite">>

\* A mistake: the values of the repositories are not checked.
GuardWorkspaceOnly(s) ==
  LET c == call[s]
      e == c.edits[1]
  IN /\ At(s, "guard")
     /\ IF "env" \in DOMAIN e /\ e.env \cap secrets.ws # {} THEN Answer(s)
        ELSE GoOn(s, [c EXCEPT !.doc = secrets])
     /\ UNCHANGED <<frame, tables, ghosts>>

\* The read of the sealed document, and the check of every plain value the
\* request carries against it.
Guard(s) ==
  LET c == call[s]
      e == c.edits[1]
      clash == \/ "env" \in DOMAIN e /\ e.env \cap secrets.ws # {}
               \/ "repos" \in DOMAIN e
                  /\ \E r \in DOMAIN e.repos : e.repos[r] \cap secrets.repos[r] # {}
  IN /\ At(s, "guard")
     /\ IF clash THEN Answer(s) ELSE GoOn(s, [c EXCEPT !.doc = secrets])
     /\ UNCHANGED <<frame, tables, ghosts>>

\* getWorkspaceSettings and the merged write: two statements, no lock.
BlobRead(s) ==
  /\ At(s, "blobRead")
  /\ IF ws THEN GoOn(s, [call[s] EXCEPT !.blob = settings]) /\ UNCHANGED failures
           ELSE Fail(s, "no_workspace")
  /\ UNCHANGED <<frame, tables, clean, started, seeded>>

BlobWrite(s) ==
  LET c == call[s]
      next == Merge(c.blob, Head(c.edits))
  IN /\ At(s, "blobWrite")
     /\ settings' = next
     /\ started' = (started \/ ("enabled" \in DOMAIN Head(c.edits) /\ Head(c.edits).enabled))
     /\ GoOn(s, [c EXCEPT !.edits = Tail(@), !.blob = next])
     /\ UNCHANGED <<frame, ws, creds, token, secrets, roster, clean, seeded, failures>>

\* Secrets of the repositories this write has removed go too: the document
\* written back is the one the guard has read.
Prune(s) ==
  LET c == call[s]
      removed == {r \in Repos : c.doc.repos[r] # {} /\ r \notin DOMAIN c.blob.repos}
  IN /\ At(s, "prune")
     /\ secrets' = IF removed = {} THEN secrets
                   ELSE [c.doc EXCEPT !.repos = [r \in Repos |->
                           IF r \in removed THEN {} ELSE c.doc.repos[r]]]
     /\ GoOn(s, c)
     /\ UNCHANGED <<frame, ws, creds, settings, token, roster, ghosts>>

TokenWrite(s) ==
  /\ At(s, "token")
  /\ token' = (call[s].req.token = "set")
  /\ GoOn(s, call[s])
  /\ UNCHANGED <<frame, ws, creds, settings, secrets, roster, ghosts>>

\* One home per key: a secret must not share a name with a plain value.
RowRead(s) ==
  LET c == call[s]
      scope == c.req.scope
      found == ws /\ (scope[1] = "repo" => scope[2] \in DOMAIN settings.repos)
      clash == scope[1] # "agent" /\ c.req.set \cap Plain(settings, scope) # {}
  IN /\ At(s, "rowRead")
     /\ IF found /\ ~clash THEN GoOn(s, [c EXCEPT !.doc = secrets]) ELSE Answer(s)
     /\ UNCHANGED <<frame, tables, ghosts>>

AgentRead(s) ==
  LET c == call[s]
      i == c.req.scope[2]
  IN /\ At(s, "agentRead")
     /\ IF Live(i) /\ c.req.set \cap agents[i].env = {} THEN GoOn(s, c) ELSE Answer(s)
     /\ UNCHANGED <<frame, tables, ghosts>>

SecretsWrite(s) ==
  LET c == call[s]
      scope == c.req.scope
  IN /\ At(s, "secretsWrite")
     /\ secrets' = WithSubmap(c.doc, scope,
                     (ScopeSubmap(c.doc, scope) \cup c.req.set) \ c.req.del)
     /\ GoOn(s, c)
     /\ UNCHANGED <<frame, ws, creds, settings, token, roster, ghosts>>

\* PUT :id/jira-connection: new credentials are stored once Jira takes them.
CredWrite(s) ==
  /\ At(s, "credWrite")
  /\ creds' = "good"
  /\ GoOn(s, call[s])
  /\ UNCHANGED <<frame, ws, settings, token, secrets, roster, ghosts>>

\* set_env of the admin tools: one GET, whose answer names the repository and
\* is the base of the plain values it writes two calls later.
ToolGet(s) ==
  LET c == call[s]
      scope == c.req.scope
      found == CASE scope[1] = "ws"   -> TRUE
                 [] scope[1] = "repo"  -> scope[2] \in DOMAIN settings.repos
                 [] scope[1] = "agent" -> Live(scope[2]) /\ c.req.plain = {}
      merged == (Plain(settings, scope) \cup c.req.plain) \ c.req.del
      edit == IF scope[1] = "ws" THEN [env |-> merged]
              ELSE [repos |-> [settings.repos EXCEPT ![scope[2]] = merged]]
  IN /\ At(s, "toolGet")
     /\ IF ~ws \/ ~found THEN Answer(s)
        ELSE GoTo(s, [c EXCEPT
          !.edits = IF scope[1] = "agent" THEN <<>> ELSE <<edit>>,
          !.plan =
            (IF c.req.set \cup c.req.del = {} THEN <<>> ELSE SecretsPlan(scope)) \o
            (IF scope[1] = "agent" \/ c.req.plain \cup c.req.del = {} THEN <<>>
             ELSE SettingsPlan(<<edit>>, "keep"))])
     /\ UNCHANGED <<frame, tables, ghosts>>

SettingsStep(s) ==
  \/ Guard(s) \/ BlobRead(s) \/ BlobWrite(s) \/ Prune(s) \/ TokenWrite(s)
  \/ RowRead(s) \/ AgentRead(s) \/ SecretsWrite(s) \/ CredWrite(s) \/ ToolGet(s)
=============================================================================
