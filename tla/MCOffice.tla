------------------------------ MODULE MCOffice ------------------------------
(* What surrounds the documents, in one run: imports, backups, tax alerts, accounts,
   subjects and their users, the API and its limits.  The modules share no variable,
   so their product would only multiply states: in each behaviour one of them, its
   part, moves and the others stay where they start. *)
EXTENDS ImportRuns, BackupFiles, TaxAlerts, Accounts,
        SubjectAccess, ApiCalls, RateLimiter, TLC

VARIABLE part

\* Two files that share a row, one of them with two rows alike, and a damaged one.
Rows == [f \in ImportFile |-> CASE f = "f1" -> <<"a", "b", "a">>
                                [] f = "f2" -> <<"b">>
                                [] OTHER    -> None]

Keys == [r \in RowId |-> IF r = "b" THEN "l" ELSE "k"]

\* Names that differ in case only are one name to the database.
StorageKey == [n \in SeriesName |-> IF n = "b" THEN "b" ELSE "a"]

\* The keys of the API, one for each kind of call.
Kinds == [k \in IdemKey |-> CASE k = "i1" -> "write" [] k = "i2" -> "run" [] OTHER -> "mail"]

\* Calls with different keys, or with none, meet in the count of the month only: all
\* calls of a behaviour have the same.
OneKey ==
  part = "api" =>
    Cardinality({e.key : e \in effects \cup tried}
                  \cup {call[w].sent.key : w \in {v \in Caller : call[v] # None}}) <= 1

\* Records are written by others twice, around the import of a backup once.
FewWrites == importSource \in Backup => recordWrites <= 1

\* The instances share their model values: the threads and devices of all modules
\* are AlertRun, what they exchange is AccountKey.
Symmetry == Permutations(AlertRun) \cup Permutations(AccountKey)

Parts == {"import", "backup", "alerts", "accounts", "access", "api", "limiter"}

MCInit ==
  /\ part \in Parts
  /\ ImportInit /\ (part # "import" => importSource = "contacts_csv")
  /\ TaxAlertsInit /\ (part # "alerts" => profile = CHOOSE p \in Profile : TRUE)
  /\ AccountsInit
  /\ (part # "accounts" => user.active /\ user.maxAge = CHOOSE a \in AgeChoices : TRUE)
  /\ AccessInit /\ ApiInit /\ LimiterInit
  /\ BackupFilesInit
  /\ (part # "backup" => \A name \in AllDatasets : stored[name] = <<>>)

\* The variables of every module but one stay as they are.
Still(P) ==
  /\ ("import" \in P => UNCHANGED importVars)
  /\ ("backup" \in P => UNCHANGED backupVars)
  /\ ("alerts" \in P => UNCHANGED alertVars)
  /\ ("accounts" \in P => UNCHANGED accountVars)
  /\ ("access" \in P => UNCHANGED accessVars)
  /\ ("api" \in P => UNCHANGED apiVars)
  /\ ("limiter" \in P => UNCHANGED limiterVars)

MCNext ==
  /\ \/ part = "import" /\ ImportNext
     \/ part = "backup" /\ BackupFilesNext
     \/ part = "alerts" /\ TaxAlertsNext
     \/ part = "accounts" /\ AccountsNext
     \/ part = "access" /\ AccessNext
     \/ part = "api" /\ ApiNext
     \/ part = "limiter" /\ LimiterNext
  /\ Still(Parts \ {part})
  /\ UNCHANGED part

MCSpec ==
  MCInit /\ [][MCNext]_<<part, importVars, backupVars, alertVars,
                        accountVars, accessVars, apiVars, limiterVars>>

=============================================================================
