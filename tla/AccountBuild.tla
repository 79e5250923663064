---------------------------- MODULE AccountBuild ----------------------------
(***************************************************************************)
(* How an account comes to be from a repository: `clone` and `adopt` of    *)
(* the four drivers, src/src/uv-git.c, udt-git.c, jb-git.c and mvx-git.c,  *)
(* with the engine's part of it in mvxgit.c.                               *)
(*                                                                         *)
(* A clone fetches without a working tree and builds the account from the  *)
(* commit.  An adopt is handed a checkout plain git made, perhaps edited:  *)
(* it puts the edits in git's stash, clears the checkout, makes the        *)
(* account, builds the records from the stash's tree, and drops the stash. *)
(* Every step is a process or a file operation of its own and the command  *)
(* can be killed between any two of them.                                  *)
(*                                                                         *)
(* The accounts of a repository share its configuration and its stash.     *)
(* The content of an account is the commit's, with what the user did to    *)
(* the checkout: changed a record's file, added one.                       *)
(***************************************************************************)
EXTENDS Naturals, Sequences

CONSTANTS
    Accounts,      \* the accounts of the repository
    Root,          \* the one at the root of it, when it holds no other
    Drivers,       \* which of the drivers are at work: "uv", "udt", "jb", "mvx"
    Faults,        \* the steps that may fail: "account", "seed", "stash", "build"
    MaxKills,      \* bound: how often a command is killed
    MaxRuns,       \* bound: how many commands are started
    AtOnce         \* bound: how many run at a time

ASSUME ConstantsAssumption ==
    /\ Root \in Accounts
    /\ Drivers \subseteq {"uv", "udt", "jb", "mvx"}
    /\ Faults \subseteq {"account", "seed", "stash", "build"}
    /\ MaxKills \in Nat /\ MaxRuns \in Nat /\ AtOnce \in Nat \ {0}

VARIABLES
    driver,      \* the driver of this system
    nested,      \* whether the repository holds several accounts, none at its root
    head,        \* the form of the commit: open, native here, native elsewhere
    fetched,     \* whether there is a repository here
    flag,        \* mvx.openaccount in its configuration
    stash,       \* git stash list, the newest first
    cataloged,   \* the agent is in the global catalog of the system
    place,       \* every account's directory
    run,         \* the command at work in it
    runs, kills, \* how many are left
    \* Not the program's: what the user did to the checkout, the accounts an adopt
    \* was started on when they were live already, and those whose records were not
    \* all written when the engine was told to.
    did, overLive, short

system == <<driver, nested, head, cataloged>>
vars   == <<system, fetched, flag, stash, place, run, runs, kills, did, overLive, short>>

\* What the user does to the checkout: a tracked file edited, a new file.
Work == {"edit", "new"}

Bare == [tree |-> FALSE, work |-> {}, desc |-> FALSE, live |-> FALSE, agent |-> FALSE,
         recs |-> {}, form |-> "none", excluded |-> FALSE]
Idle == [cmd |-> "none", at |-> 0, made |-> FALSE, already |-> FALSE,
         open |-> "unsaid", agreed |-> FALSE, env |-> FALSE, told |-> "nothing"]

Here == IF nested THEN Accounts ELSE {Root}

TypeOK ==
    /\ driver \in Drivers /\ nested \in BOOLEAN /\ cataloged \in BOOLEAN
    /\ head \in {"open", "own", "foreign"}
    /\ fetched \in BOOLEAN /\ flag \in BOOLEAN
    /\ stash \in Seq([of : Accounts, work : SUBSET Work])
    /\ place \in [Accounts -> [tree : BOOLEAN, work : SUBSET Work, desc : BOOLEAN,
                               live : BOOLEAN, agent : BOOLEAN,
                               recs : SUBSET ({"head"} \cup Work),
                               form : {"none", "open", "native"}, excluded : BOOLEAN]]
    /\ run \in [Accounts -> [cmd : {"none", "clone", "adopt"}, at : Nat, made : BOOLEAN,
                             already : BOOLEAN, open : {"unsaid", "yes", "no"},
                             agreed : BOOLEAN, env : BOOLEAN,
                             told : {"nothing", "success", "failure"}]]
    /\ \A a \in Accounts : run[a].at = 0 <=> run[a].cmd = "none"
    /\ runs \in 0..MaxRuns /\ kills \in 0..MaxKills
    /\ did \in [Accounts -> SUBSET Work]
    /\ overLive \subseteq Accounts /\ short \subseteq Accounts

Init ==
    /\ driver \in Drivers /\ nested \in BOOLEAN /\ head \in {"open", "own", "foreign"}
    /\ cataloged \in IF driver = "udt" THEN BOOLEAN ELSE {FALSE}
    /\ fetched = nested /\ flag \in (IF nested THEN BOOLEAN ELSE {FALSE})
    /\ stash = <<>>
    /\ place = [a \in Accounts |->
                  IF nested THEN [Bare EXCEPT !.tree = TRUE, !.desc = TRUE] ELSE Bare]
    /\ run = [a \in Accounts |-> Idle]
    /\ runs = MaxRuns /\ kills = MaxKills
    /\ did = [a \in Accounts |-> {}] /\ overLive = {} /\ short = {}

-----------------------------------------------------------------------------
(* The commands, as the steps they take.                                    *)

UvClone  == <<"fetch", "flavour", "account", "exclude", "describe", "seed", "ask",
              "export", "build", "done">>
UdtClone == <<"fetch", "account", "ask", "seed", "export", "build", "done">>
JbClone  == <<"fetch", "account", "ask", "export", "build", "done">>
MvxClone == <<"fetch", "ask", "materialise", "done">>

\* There is no "export": the records are read by the setting of the environment.
UvAdopt  == <<"flavour", "question", "stash", "clear", "account", "exclude", "describe",
              "persist", "seed", "build", "drop", "done">>

\* Mutated: the flag reaches the configuration and not the environment.
UdtAdoptUnexported ==
    <<"question", "persist", "stash", "clear", "account", "seed", "build", "drop", "done">>

\* Mutated: the account is built over the checkout.
UdtAdoptUncleared ==
    <<"question", "persist", "stash", "account", "seed", "export", "build", "drop", "done">>

UdtAdopt == <<"question", "persist", "stash", "clear", "account", "seed", "export",
              "build", "drop", "done">>
JbAdopt  == <<"question", "persist", "stash", "clear", "account", "export", "build",
              "drop", "done">>
MvxAdopt == <<"question", "persist", "import", "done">>

Script(cmd) ==
    CASE cmd = "clone" /\ driver = "uv"  -> UvClone
      [] cmd = "clone" /\ driver = "udt" -> UdtClone
      [] cmd = "clone" /\ driver = "jb"  -> JbClone
      [] cmd = "clone" /\ driver = "mvx" -> MvxClone
      [] cmd = "adopt" /\ driver = "uv"  -> UvAdopt
      [] cmd = "adopt" /\ driver = "udt" -> UdtAdopt
      [] cmd = "adopt" /\ driver = "jb"  -> JbAdopt
      [] cmd = "adopt" /\ driver = "mvx" -> MvxAdopt

At(a, step) == run[a].cmd # "none" /\ Script(run[a].cmd)[run[a].at] = step

\* Mutated: a command that ends leaves behind where it was.
EndsInPlace(a, said) == run' = [run EXCEPT ![a] = [@ EXCEPT !.cmd = "none", !.told = said]]

\* The command at a goes on to its next step, with what it knows now; or ends, and
\* says how.
Goes(a, knows) == run' = [run EXCEPT ![a] = [knows EXCEPT !.at = @ + 1]]
Ends(a, said)  == run' = [run EXCEPT ![a] = [Idle EXCEPT !.told = said]]

Becomes(a, p) == place' = [place EXCEPT ![a] = p]

Bounded == UNCHANGED <<system, runs, kills>>

-----------------------------------------------------------------------------
(* What the user does.                                                      *)

MayStart(a) ==
    /\ runs > 0 /\ run[a].cmd = "none"
    /\ \A b \in Accounts \ {a} :
          run[b].cmd # "none" => AtOnce > 1

\* --open-account and --no-open-account, which mvx-git's adopt does not look at.
Options(cmd) ==
    IF driver = "mvx" /\ cmd = "adopt" THEN {"unsaid"} ELSE {"unsaid", "yes", "no"}

Starts(a, cmd) ==
    /\ \E open \in Options(cmd) :
          run' = [run EXCEPT ![a] = [Idle EXCEPT !.cmd = cmd, !.at = 1, !.open = open,
                                                !.already = place[a].live]]
    /\ runs' = runs - 1
    /\ UNCHANGED <<system, fetched, flag, stash, place, kills, did, short>>

Clone ==
    /\ ~nested /\ MayStart(Root)
    /\ Starts(Root, "clone") /\ UNCHANGED overLive

\* A directory without a descriptor is no account to adopt, and one that is live is
\* taken all the same.
Adopt(a) ==
    /\ MayStart(a) /\ place[a].desc
    /\ Starts(a, "adopt")
    /\ overLive' = IF place[a].live THEN overLive \cup {a} ELSE overLive

\* `git checkout`, where a command left a repository with neither account nor checkout.
CheckOut(a) ==
    /\ fetched /\ run[a].cmd = "none" /\ ~place[a].live /\ ~place[a].tree
    /\ place[a].recs = {}
    /\ Becomes(a, [place[a] EXCEPT !.tree = TRUE, !.desc = TRUE])
    /\ UNCHANGED <<fetched, flag, stash, run, did, overLive, short>> /\ Bounded

Change(a, w) ==
    /\ place[a].tree /\ run[a].cmd = "none" /\ ~place[a].live /\ w \notin did[a]
    /\ Becomes(a, [place[a] EXCEPT !.work = @ \cup {w}])
    /\ did' = [did EXCEPT ![a] = @ \cup {w}]
    /\ UNCHANGED <<fetched, flag, stash, run, overLive, short>> /\ Bounded

\* A command is killed: what it has done so far stays.
Kill(a) ==
    /\ kills > 0 /\ run[a].cmd # "none"
    /\ run' = [run EXCEPT ![a] = Idle] /\ kills' = kills - 1
    /\ UNCHANGED <<system, fetched, flag, stash, place, runs, did, overLive, short>>

-----------------------------------------------------------------------------
(* The steps.                                                               *)

\* `git clone --no-checkout`, which refuses a directory that is there.
Fetch(a) ==
    /\ At(a, "fetch")
    /\ \/ ~fetched /\ fetched' = TRUE /\ Goes(a, run[a])
       \/ UNCHANGED fetched /\ Ends(a, "failure")
    /\ UNCHANGED <<flag, stash, place, did, overLive, short>> /\ Bounded

\* The configuration, read as text, where the account itself has a repository: one in
\* a directory below does not find it.
SaysOpen == flag /\ ~nested

\* It is written by the same path, and nobody acts on it when that fails.
Keeps(agreed) == flag' = (flag \/ (agreed /\ ~nested))

\* What a connection takes the account for: as it was told, else by the configuration.
IsOpen(a) == IF run[a].open = "unsaid" THEN SaysOpen ELSE run[a].open = "yes"

\* A question is put to the user where one applies and the command line has not
\* answered it; the answer counts from then on as if it had.
Answers(a, applies) ==
    IF applies /\ run[a].open = "unsaid" THEN {"yes", "no"} ELSE {run[a].open}

\* Adopt has a question for a checkout in the open form, whether to enable it, and for
\* one that is native to another system, whether to convert it.  uv-git goes by its own
\* options alone.
AdoptAsks(a) ==
    \/ head = "open" /\ ~(IF driver = "uv" THEN run[a].open = "yes" ELSE IsOpen(a))
    \/ head = "foreign"

\* UniVerse cannot be asked the flavour of an account, so without one in the commit and
\* a terminal to ask on there is no way on - unless the account is there already.
Flavour(a) ==
    /\ At(a, "flavour")
    /\ \/ Goes(a, run[a])
       \/ ~run[a].already /\ Ends(a, "failure")
    /\ UNCHANGED <<fetched, flag, stash, place, did, overLive, short>> /\ Bounded

\* The configuration is set by the answer to a question; in uv-git's adopt, by what the
\* command line says too.
Question(a) ==
    /\ At(a, "question")
    /\ \E open \in Answers(a, AdoptAsks(a)) :
          Goes(a, [run[a] EXCEPT
                     !.open = open,
                     !.agreed = open = "yes" /\ (AdoptAsks(a) \/ driver = "uv")])
    /\ UNCHANGED <<fetched, flag, stash, place, did, overLive, short>> /\ Bounded

\* What clone asks: whether a commit in the open form shall stay in it here.  mvx-git
\* takes the command line's word for a commit in any form.
Ask(a) ==
    /\ At(a, "ask")
    /\ \E open \in Answers(a, head = "open") :
          LET agreed == open = "yes" /\ (head = "open" \/ driver = "mvx")
          IN  /\ Keeps(agreed)
              /\ Goes(a, [run[a] EXCEPT !.open = open, !.agreed = agreed])
    /\ UNCHANGED <<fetched, stash, place, did, overLive, short>> /\ Bounded

Persist(a) ==
    /\ At(a, "persist")
    /\ Keeps(run[a].agreed)
    /\ Goes(a, run[a])
    /\ UNCHANGED <<fetched, stash, place, did, overLive, short>> /\ Bounded

\* The engine reads the form from the environment: uv-git sets it where it asked.
Export(a) ==
    /\ At(a, "export")
    /\ Goes(a, [run[a] EXCEPT !.env = IF driver = "uv" THEN run[a].agreed ELSE IsOpen(a)])
    /\ UNCHANGED <<fetched, flag, stash, place, did, overLive, short>> /\ Bounded

\* Mutated: whatever is on top of the stash is taken for this run's.
StashUncompared(a) ==
    /\ At(a, "stash")
    /\ \/ /\ place[a].work # {}
          /\ stash' = <<[of |-> a, work |-> place[a].work]>> \o stash
          /\ Becomes(a, [place[a] EXCEPT !.work = {}])
       \/ (place[a].work = {} \/ "stash" \in Faults) /\ UNCHANGED <<stash, place>>
    /\ Goes(a, [run[a] EXCEPT !.made = stash' # <<>>])
    /\ UNCHANGED <<fetched, flag, did, overLive, short>> /\ Bounded

\* `git stash push -u -- .`, whose result nobody looks at: whether it made an entry
\* is seen from the top of the stash before and after.
Stash(a) ==
    /\ At(a, "stash")
    /\ \/ /\ place[a].work # {}
          /\ stash' = <<[of |-> a, work |-> place[a].work]>> \o stash
          /\ Becomes(a, [place[a] EXCEPT !.work = {}])
       \/ (place[a].work = {} \/ "stash" \in Faults) /\ UNCHANGED <<stash, place>>
    /\ Goes(a, [run[a] EXCEPT !.made = stash' # stash])
    /\ UNCHANGED <<fetched, flag, did, overLive, short>> /\ Bounded

\* Every name at the top of the commit's tree is removed: on a live account those
\* are its files.
Clear(a) ==
    /\ At(a, "clear")
    /\ Becomes(a, [place[a] EXCEPT !.tree = FALSE, !.desc = FALSE, !.work = {},
                     !.live = FALSE, !.recs = {}, !.form = "none"])
    /\ Goes(a, run[a])
    /\ UNCHANGED <<fetched, flag, stash, did, overLive, short>> /\ Bounded

\* The database's own command makes the account, and it is the files that tell
\* whether it did.
Makes(a) == Becomes(a, [place[a] EXCEPT !.live = TRUE]) /\ Goes(a, run[a])

CannotMake(a) == "account" \in Faults /\ ~place[a].live /\ UNCHANGED place

\* An account that was live when adopt began is taken to be there still.
UvAccount(a) ==
    /\ At(a, "account") /\ driver = "uv"
    /\ \/ run[a].already /\ UNCHANGED place /\ Goes(a, run[a])
       \/ ~run[a].already /\ Makes(a)
       \/ ~run[a].already /\ CannotMake(a) /\ Ends(a, "failure")
    /\ UNCHANGED <<fetched, flag, stash, did, overLive, short>> /\ Bounded

UdtAccount(a) ==
    /\ At(a, "account") /\ driver = "udt"
    /\ Makes(a) \/ (CannotMake(a) /\ Ends(a, "failure"))
    /\ UNCHANGED <<fetched, flag, stash, did, overLive, short>> /\ Bounded

\* jb-git says so and goes on.
JbAccount(a) ==
    /\ At(a, "account") /\ driver = "jb"
    /\ Makes(a) \/ (CannotMake(a) /\ Goes(a, run[a]))
    /\ UNCHANGED <<fetched, flag, stash, did, overLive, short>> /\ Bounded

\* The files UniVerse made are kept out of the repository, where they were made.
Exclude(a) ==
    /\ At(a, "exclude")
    /\ IF run[a].already THEN UNCHANGED place
                         ELSE Becomes(a, [place[a] EXCEPT !.excluded = TRUE])
    /\ Goes(a, run[a])
    /\ UNCHANGED <<fetched, flag, stash, did, overLive, short>> /\ Bounded

\* uv-git leaves a descriptor of this system, or of the open form, on the disk.
Describe(a) ==
    /\ At(a, "describe")
    /\ Becomes(a, [place[a] EXCEPT !.desc = TRUE]) /\ Goes(a, run[a])
    /\ UNCHANGED <<fetched, flag, stash, did, overLive, short>> /\ Bounded

\* A new account has no agent: put one in.  Only uv-git's clone gives up without.
Seed(a) ==
    /\ At(a, "seed")
    /\ \/ /\ ~cataloged /\ ~(run[a].already /\ driver = "uv")
          /\ Becomes(a, [place[a] EXCEPT !.agent = TRUE]) /\ Goes(a, run[a])
       \/ /\ cataloged \/ (run[a].already /\ driver = "uv")
          /\ UNCHANGED place /\ Goes(a, run[a])
       \/ /\ "seed" \in Faults /\ ~cataloged /\ UNCHANGED place
          /\ IF driver = "uv" /\ run[a].cmd = "clone" THEN Ends(a, "failure")
                                                      ELSE Goes(a, run[a])
    /\ UNCHANGED <<fetched, flag, stash, did, overLive, short>> /\ Bounded

\* What a tree of the stash holds for account a: files that were not tracked are
\* in the entry, in a commit of their own, and not in its tree.
InTree(a, entry) == {"head"} \cup (IF entry.of = a THEN entry.work \ {"new"} ELSE {})

\* The tree the records are built from, by the name it was given: the newest entry of
\* the stash as it is now, or the commit; nothing when the name means nothing.
Source(a) ==
    IF ~run[a].made THEN {"head"}
    ELSE IF stash = <<>> THEN {}
    ELSE InTree(a, Head(stash))

\* Records are reached through a session on the systems that have one, and a session
\* needs an agent.
Reaches(a) == driver \in {"uv", "udt"} => place[a].live /\ (place[a].agent \/ cataloged)

\* What the engine wrote, which is all there was to write, or falls short of it: it may
\* not open the repository, find nothing by the name, or leave out a file that does not
\* open; BUILD may fail.  The drivers print what it says, or nothing, and go on.
Wrote(a, got, all) ==
    \/ got = all /\ UNCHANGED short
    \/ got # all /\ "build" \in Faults /\ short' = short \cup {a}

\* Mutated: a build that reaches no records is not the end of the command.
BuildRegardless(a) ==
    /\ At(a, "build")
    /\ Becomes(a, [place[a] EXCEPT
            !.recs = IF Reaches(a) THEN Source(a) ELSE {},
            !.form = IF run[a].env THEN "open" ELSE "native"])
    /\ Goes(a, run[a])
    /\ UNCHANGED <<fetched, flag, stash, did, overLive, short>> /\ Bounded

\* GITMATERIALIZE.  No session, no command: the backend ends the process.
Build(a) ==
    /\ At(a, "build")
    /\ \/ /\ Reaches(a)
          /\ \E got \in SUBSET Source(a) :
                /\ Wrote(a, got, Source(a))
                /\ Becomes(a, [place[a] EXCEPT
                       !.recs = got, !.form = IF run[a].env THEN "open" ELSE "native"])
          /\ Goes(a, run[a])
       \/ ~Reaches(a) /\ UNCHANGED <<place, short>> /\ Ends(a, "failure")
    /\ UNCHANGED <<fetched, flag, stash, did, overLive>> /\ Bounded

\* mv_git_materialize_account: the setting, the records, and MVX's own BUILD.
Materialise(a) ==
    /\ At(a, "materialise")
    /\ \E got \in SUBSET {"head"}, live \in BOOLEAN :
          /\ Wrote(a, <<got, live>>, <<{"head"}, TRUE>>)
          /\ Becomes(a, [place[a] EXCEPT !.recs = got, !.live = live, !.desc = live,
                           !.form = IF SaysOpen THEN "open" ELSE "native"])
    /\ Goes(a, run[a])
    /\ UNCHANGED <<fetched, flag, stash, did, overLive>> /\ Bounded

\* On MVX the checkout is the account: the adopt tool reads it where it is, by the
\* repository's flag.
Import(a) ==
    /\ At(a, "import")
    /\ \/ /\ Becomes(a, [place[a] EXCEPT
                 !.recs = {"head"} \cup place[a].work, !.live = TRUE,
                 !.form = IF SaysOpen THEN "open" ELSE "native"])
          /\ Goes(a, run[a])
       \/ "account" \in Faults /\ UNCHANGED place /\ Ends(a, "failure")
    /\ UNCHANGED <<fetched, flag, stash, did, overLive, short>> /\ Bounded

\* `git stash drop`: the newest entry, if this run made one.
Drop(a) ==
    /\ At(a, "drop")
    /\ stash' = IF run[a].made /\ stash # <<>> THEN Tail(stash) ELSE stash
    /\ Goes(a, run[a])
    /\ UNCHANGED <<fetched, flag, place, did, overLive, short>> /\ Bounded

Done(a) ==
    /\ At(a, "done")
    /\ Ends(a, "success")
    /\ UNCHANGED <<fetched, flag, stash, place, did, overLive, short>> /\ Bounded

Command(a) ==
    \/ Fetch(a) \/ Flavour(a) \/ Question(a) \/ Ask(a) \/ Persist(a) \/ Export(a)
    \/ Stash(a) \/ Clear(a) \/ UvAccount(a) \/ UdtAccount(a) \/ JbAccount(a)
    \/ Exclude(a) \/ Describe(a) \/ Seed(a)
    \/ Build(a) \/ Materialise(a) \/ Import(a) \/ Drop(a) \/ Done(a)

User ==
    \/ Clone
    \/ \E a \in Here :
          Adopt(a) \/ CheckOut(a) \/ Kill(a) \/ \E w \in Work : Change(a, w)

Next == User \/ \E a \in Here : Command(a)

Spec == Init /\ [][Next]_vars

-----------------------------------------------------------------------------
(* What the user relies on.                                                 *)

Stashed(a) == UNION {stash[k].work : k \in {k \in DOMAIN stash : stash[k].of = a}}

Somewhere(a) == place[a].work \cup place[a].recs \cup Stashed(a)

\* A record file the user edited is in the checkout, in the stash or in the account,
\* whatever fails and wherever the command is killed (mv_git_worktree_stash,
\* mv_git_worktree_clear), unless adopt is run on an account that is live already or
\* the engine wrote less than its tree holds.
EditsKept ==
    \A a \in Accounts \ (overLive \cup short) : "edit" \in did[a] => "edit" \in Somewhere(a)

\* A command that says it made the account has made it, put the records of the commit
\* into it, and on UniVerse kept the account's own files out of git (provision,
\* clone_cmd, adopt), where the engine wrote all it was to; jb-git makes do with a
\* directory.
SuccessIsTrue ==
    \A a \in Accounts \ (overLive \cup short) :
        run[a].told = "success" =>
            /\ "head" \in place[a].recs
            /\ place[a].live \/ driver = "jb"
            /\ driver = "uv" => place[a].excluded

\* The records are built in the form that was chosen: on the command line, by the
\* answer to the question, else by the configuration the account finds; and an answer
\* that was to be kept has been, where there is a configuration to keep it in
\* (mvconn_open_account, mvconn_persist_open_account, mv_git_materialize).  Not so by
\* the adopt of uv-git, which leaves the environment alone, and of mvx-git, whose
\* import is a tool of its own; and uv-git's clone asks nothing and heeds no option
\* for a commit that is not in the open form.
FormIsChosen ==
    [][\A a \in Accounts :
          /\ place'[a].recs # place[a].recs /\ place'[a].recs # {}
          /\ run[a].cmd = "adopt" => driver \in {"udt", "jb"}
          /\ driver = "uv" => head = "open"
          => /\ place'[a].form = IF IsOpen(a) THEN "open" ELSE "native"
             /\ run[a].agreed /\ ~nested => flag]_vars

\* Records are never built while the open form lies on the names the account's files
\* want (mv_git_worktree_clear), except on MVX, where the checkout is the account.
BuiltInClearedTree ==
    [][driver # "mvx" =>
          \A a \in Accounts : At(a, "build") /\ place'[a].recs # {} => ~place'[a].tree]_vars

(* What the code says and does not do.                                      *)

\* mv_git_worktree_stash: "-u so an uncommitted record file is adopted too, not left
\* behind".
NewFilesAdopted ==
    \A a \in Accounts \ (overLive \cup short) :
        run[a].told = "success" /\ "new" \in did[a] => "new" \in Somewhere(a)

=============================================================================
