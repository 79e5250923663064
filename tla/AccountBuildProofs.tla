------------------------- MODULE AccountBuildProofs -------------------------
(* Proofs about AccountBuild, for any accounts, any drivers and any number  *)
(* of commands and kills.                                                   *)
EXTENDS AccountBuild, SequenceTheorems, TLAPS

Entries == [of : Accounts, work : SUBSET Work]
Places  == [tree : BOOLEAN, work : SUBSET Work, desc : BOOLEAN, live : BOOLEAN,
            agent : BOOLEAN, recs : SUBSET ({"head"} \cup Work),
            form : {"none", "open", "native"}, excluded : BOOLEAN]
Runs    == [cmd : {"none", "clone", "adopt"}, at : Nat, made : BOOLEAN,
            already : BOOLEAN, open : {"unsaid", "yes", "no"},
            agreed : BOOLEAN, env : BOOLEAN, told : {"nothing", "success", "failure"}]

\* What TypeOK says, by these names.
Typed ==
    /\ driver \in Drivers /\ nested \in BOOLEAN /\ cataloged \in BOOLEAN
    /\ head \in {"open", "own", "foreign"}
    /\ fetched \in BOOLEAN /\ flag \in BOOLEAN
    /\ stash \in Seq(Entries)
    /\ place \in [Accounts -> Places] /\ run \in [Accounts -> Runs]
    /\ \A a \in Accounts : run[a].at = 0 <=> run[a].cmd = "none"
    /\ runs \in 0..MaxRuns /\ kills \in 0..MaxKills
    /\ did \in [Accounts -> SUBSET Work]
    /\ overLive \subseteq Accounts /\ short \subseteq Accounts

LEMMA TypedIsTypeOK == Typed <=> TypeOK
BY DEF Typed, TypeOK, Entries, Places, Runs

-----------------------------------------------------------------------------
(* How one command moves                                                   *)

LEMMA HereAreAccounts == Here \subseteq Accounts
BY ConstantsAssumption DEF Here

\* A command that goes on is one step further, with what it knows.
LEMMA Going ==
    ASSUME Typed, NEW a \in Accounts, NEW k \in Runs, Goes(a, k)
    PROVE  /\ run' \in [Accounts -> Runs]
           /\ \A b \in Accounts \ {a} : run'[b] = run[b]
           /\ run'[a].at = k.at + 1 /\ run'[a].cmd = k.cmd
           /\ run'[a].made = k.made /\ run'[a].already = k.already
           /\ run'[a].env = k.env /\ run'[a].told = k.told
           /\ run'[a].open = k.open /\ run'[a].agreed = k.agreed
<1> DEFINE r == [k EXCEPT !.at = k.at + 1]
<1>1. /\ r \in Runs
      /\ r.at = k.at + 1 /\ r.cmd = k.cmd /\ r.made = k.made
      /\ r.already = k.already /\ r.env = k.env /\ r.told = k.told
      /\ r.open = k.open /\ r.agreed = k.agreed
  BY DEF Runs
<1>2. run' = [run EXCEPT ![a] = r]
  BY DEF Goes
<1> HIDE DEF r
<1>3. run \in [Accounts -> Runs]
  BY DEF Typed
<1> QED
  BY <1>1, <1>2, <1>3

\* One that ends knows nothing more.
LEMMA Ending ==
    ASSUME Typed, NEW a \in Accounts, NEW said \in {"nothing", "success", "failure"},
           Ends(a, said)
    PROVE  /\ run' \in [Accounts -> Runs]
           /\ \A b \in Accounts \ {a} : run'[b] = run[b]
           /\ run'[a].at = 0 /\ run'[a].cmd = "none"
           /\ run'[a].made = FALSE /\ run'[a].told = said /\ run'[a].agreed = FALSE
BY DEF Typed, Ends, Runs, Idle

LEMMA Becoming ==
    ASSUME Typed, NEW a \in Accounts, NEW p \in Places, Becomes(a, p)
    PROVE  /\ place' \in [Accounts -> Places]
           /\ place'[a] = p /\ \A b \in Accounts \ {a} : place'[b] = place[b]
BY DEF Typed, Becomes

-----------------------------------------------------------------------------
(* Where the steps of a script are                                         *)

\* The step that puts the records into the account.
BuildAt(cmd) ==
    CASE driver = "uv"  -> IF cmd = "adopt" THEN 10 ELSE 9
      [] driver = "udt" -> IF cmd = "adopt" THEN 8 ELSE 6
      [] driver = "jb"  -> IF cmd = "adopt" THEN 7 ELSE 5
      [] driver = "mvx" -> 3

\* The last one.
DoneAt(cmd) ==
    IF cmd = "adopt" /\ driver # "mvx" THEN BuildAt(cmd) + 2 ELSE BuildAt(cmd) + 1

\* Step k of a script is s, as far as the proofs need to know.
Fits(cmd, k, s) ==
    /\ s = "done" <=> k = DoneAt(cmd)
    /\ s = "stash" <=> cmd = "adopt" /\ driver # "mvx" /\ k = 3
    /\ s = "clear" <=> cmd = "adopt" /\ driver # "mvx" /\ k = 4
    /\ s = "drop"  <=> cmd = "adopt" /\ driver # "mvx" /\ k = BuildAt(cmd) + 1
    /\ s = "build" <=> driver # "mvx" /\ k = BuildAt(cmd)
    /\ s = "materialise" <=> driver = "mvx" /\ cmd = "clone" /\ k = 3
    /\ s = "import" <=> driver = "mvx" /\ cmd = "adopt" /\ k = 3
    /\ s = "fetch" <=> cmd = "clone" /\ k = 1
    /\ s = "export" <=> /\ driver # "mvx" /\ ~(driver = "uv" /\ cmd = "adopt")
                        /\ k = BuildAt(cmd) - 1
    /\ s = "exclude" <=> driver = "uv" /\ k = IF cmd = "adopt" THEN 6 ELSE 4
    /\ s = "describe" => driver = "uv" /\ k < BuildAt(cmd)
    /\ s = "question" => cmd = "adopt" /\ (driver # "uv" => k = 1)
    /\ cmd = "adopt" /\ driver # "uv" /\ k = 2 => s = "persist"
    /\ s = "ask" => cmd = "clone"
    /\ cmd = "clone" /\ driver = "uv" /\ k = 7 => s = "ask"
    /\ cmd = "clone" /\ driver = "mvx" /\ k = 2 => s = "ask"

LEMMA Scripts ==
    ASSUME driver \in Drivers, NEW cmd \in {"clone", "adopt"}
    PROVE  /\ BuildAt(cmd) \in Nat /\ DoneAt(cmd) \in Nat
           /\ DOMAIN Script(cmd) = 1..DoneAt(cmd)
           /\ \A k \in 1..DoneAt(cmd) : Fits(cmd, k, Script(cmd)[k])
<1>1. driver \in {"uv", "udt", "jb", "mvx"}
  BY ConstantsAssumption
<1>2. CASE cmd = "clone" /\ driver = "uv"
  BY <1>2 DEF Script, UvClone, BuildAt, DoneAt, Fits
<1>3. CASE cmd = "clone" /\ driver = "udt"
  BY <1>3 DEF Script, UdtClone, BuildAt, DoneAt, Fits
<1>4. CASE cmd = "clone" /\ driver = "jb"
  BY <1>4 DEF Script, JbClone, BuildAt, DoneAt, Fits
<1>5. CASE cmd = "clone" /\ driver = "mvx"
  BY <1>5 DEF Script, MvxClone, BuildAt, DoneAt, Fits
<1>6. CASE cmd = "adopt" /\ driver = "uv"
  BY <1>6 DEF Script, UvAdopt, BuildAt, DoneAt, Fits
<1>7. CASE cmd = "adopt" /\ driver = "udt"
  BY <1>7 DEF Script, UdtAdopt, BuildAt, DoneAt, Fits
<1>8. CASE cmd = "adopt" /\ driver = "jb"
  BY <1>8 DEF Script, JbAdopt, BuildAt, DoneAt, Fits
<1>9. CASE cmd = "adopt" /\ driver = "mvx"
  BY <1>9 DEF Script, MvxAdopt, BuildAt, DoneAt, Fits
<1> QED
  BY <1>1, <1>2, <1>3, <1>4, <1>5, <1>6, <1>7, <1>8, <1>9

-----------------------------------------------------------------------------
(* Types                                                                   *)

RunsTyped == /\ run \in [Accounts -> Runs]
             /\ \A a \in Accounts : run[a].at = 0 <=> run[a].cmd = "none"
PlacesTyped == place \in [Accounts -> Places]

LEMMA GoingTyped ==
    ASSUME Typed, NEW a \in Accounts, NEW k \in Runs, Goes(a, k),
           k.cmd # "none"
    PROVE  RunsTyped'
<1>1. k.at + 1 # 0
  BY DEF Runs
<1> QED
  BY <1>1, Going DEF RunsTyped, Typed

LEMMA EndingTyped ==
    ASSUME Typed, NEW a \in Accounts, NEW said \in {"nothing", "success", "failure"},
           Ends(a, said)
    PROVE  RunsTyped'
BY Ending DEF RunsTyped, Typed

\* A command at a step is one, and what it knows is of its type.
LEMMA AtStep ==
    ASSUME Typed, NEW a \in Accounts, NEW s, At(a, s)
    PROVE  /\ run[a] \in Runs /\ run[a].cmd # "none"
           /\ place[a] \in Places
BY DEF Typed, At

\* The tree that records are built from.
LEMMA SourceTyped ==
    ASSUME Typed, NEW a \in Accounts
    PROVE  Source(a) \subseteq {"head"} \cup Work
<1>1. stash # <<>> => Head(stash) \in Entries
  BY DEF Typed
<1> QED
  BY <1>1 DEF Source, InTree, Entries

\* What a command may come to know of the form.
Learns(a, k) ==
    \E open \in {"unsaid", "yes", "no"}, agreed, env \in BOOLEAN :
        k = [run[a] EXCEPT !.open = open, !.agreed = agreed, !.env = env]

LEMMA LearnsTyped ==
    ASSUME Typed, NEW a \in Accounts, NEW k, Learns(a, k)
    PROVE  /\ k \in Runs /\ k.cmd = run[a].cmd /\ k.at = run[a].at
           /\ k.already = run[a].already /\ k.told = run[a].told
           /\ k.made = run[a].made
<1>1. PICK q : q = run[a]
  OBVIOUS
<1>2. q \in Runs
  BY <1>1 DEF Typed
<1>3. PICK open \in {"unsaid", "yes", "no"}, agreed \in BOOLEAN, env \in BOOLEAN :
         k = [q EXCEPT !.open = open, !.agreed = agreed, !.env = env]
  BY <1>1 DEF Learns
<1> QED
  BY <1>1, <1>2, <1>3 DEF Runs

LEMMA OpenTyped ==
    ASSUME Typed, NEW a \in Accounts
    PROVE  /\ SaysOpen \in BOOLEAN /\ IsOpen(a) \in BOOLEAN
           /\ run[a].open \in {"unsaid", "yes", "no"} /\ run[a].agreed \in BOOLEAN
           /\ run[a].env \in BOOLEAN
           /\ \A applies \in BOOLEAN : Answers(a, applies) \subseteq {"unsaid", "yes", "no"}
BY DEF Typed, Runs, SaysOpen, IsOpen, Answers

\* What a question leaves known, as a choice of its two parts.
LEMMA ChoosingLearns ==
    ASSUME Typed, NEW a \in Accounts,
           NEW open \in {"unsaid", "yes", "no"}, NEW agreed \in BOOLEAN,
           NEW k, k = [run[a] EXCEPT !.open = open, !.agreed = agreed]
    PROVE  Learns(a, k) /\ k.open = open /\ k.agreed = agreed
<1>1. PICK q : q = run[a]
  OBVIOUS
<1>2. q \in Runs
  BY <1>1 DEF Typed
<1>3. q.env \in BOOLEAN
  BY <1>2 DEF Runs
<1>4. k = [q EXCEPT !.open = open, !.agreed = agreed, !.env = q.env]
  BY <1>1, <1>2 DEF Runs
<1>5. k.open = open /\ k.agreed = agreed
  BY <1>1, <1>2 DEF Runs
<1>6. k = [run[a] EXCEPT !.open = open, !.agreed = agreed, !.env = q.env]
  BY <1>1, <1>4
<1>7. Learns(a, k)
  BY <1>3, <1>6 DEF Learns
<1> QED
  BY <1>5, <1>7

\* In adopt.
LEMMA QuestionLearns ==
    ASSUME Typed, NEW a \in Accounts, Question(a)
    PROVE  \E k : Learns(a, k) /\ Goes(a, k) /\ At(a, "question")
<1>1. AdoptAsks(a) \in BOOLEAN
  BY DEF AdoptAsks
<1>2. PICK open \in Answers(a, AdoptAsks(a)) :
         Goes(a, [run[a] EXCEPT !.open = open,
                           !.agreed = open = "yes" /\ (AdoptAsks(a) \/ driver = "uv")])
  BY DEF Question
<1>3. open \in {"unsaid", "yes", "no"}
  BY <1>1, OpenTyped
<1>4. PICK agreed \in BOOLEAN : agreed = (open = "yes" /\ (AdoptAsks(a) \/ driver = "uv"))
  OBVIOUS
<1>5. PICK k : k = [run[a] EXCEPT !.open = open, !.agreed = agreed]
  OBVIOUS
<1>6. Goes(a, k) /\ At(a, "question")
  BY <1>2, <1>4, <1>5 DEF Question
<1> QED
  BY <1>3, <1>5, <1>6, ChoosingLearns

\* In clone.
LEMMA AskLearns ==
    ASSUME Typed, NEW a \in Accounts, Ask(a)
    PROVE  \E k : /\ Learns(a, k) /\ Goes(a, k) /\ At(a, "ask")
                  /\ k.agreed = (k.open = "yes" /\ (head = "open" \/ driver = "mvx"))
                  /\ head = "open" => k.open # "unsaid"
                  /\ flag' = (flag \/ (k.agreed /\ ~nested))
<1>1. PICK applies \in BOOLEAN : applies = (head = "open")
  OBVIOUS
<1>2. PICK open \in Answers(a, applies) :
         /\ Keeps(open = "yes" /\ (head = "open" \/ driver = "mvx"))
         /\ Goes(a, [run[a] EXCEPT !.open = open,
                        !.agreed = open = "yes" /\ (head = "open" \/ driver = "mvx")])
  BY <1>1 DEF Ask
<1>3. PICK agreed \in BOOLEAN : agreed = (open = "yes" /\ (head = "open" \/ driver = "mvx"))
  OBVIOUS
<1>4. open \in {"unsaid", "yes", "no"}
  BY OpenTyped
<1>5. head = "open" => open # "unsaid"
  BY <1>1 DEF Answers
<1>6. PICK k : k = [run[a] EXCEPT !.open = open, !.agreed = agreed]
  OBVIOUS
<1>7. Learns(a, k)
  BY <1>4, <1>6, ChoosingLearns
<1>8. run[a] \in Runs
  BY DEF Typed
<1>9. k.open = open /\ k.agreed = agreed
  BY <1>6, <1>8 DEF Runs
<1>10. Learns(a, k) /\ k.open = open /\ k.agreed = agreed
  BY <1>7, <1>9
<1>11. Goes(a, k) /\ At(a, "ask") /\ flag' = (flag \/ (k.agreed /\ ~nested))
  BY <1>2, <1>3, <1>6, <1>10 DEF Ask, Keeps
<1>12. k.agreed = (k.open = "yes" /\ (head = "open" \/ driver = "mvx"))
  BY <1>3, <1>10
<1>13. head = "open" => k.open # "unsaid"
  BY <1>10, <1>5
<1> QED
  BY <1>10, <1>11, <1>12, <1>13

LEMMA ExportLearns ==
    ASSUME Typed, NEW a \in Accounts, Export(a)
    PROVE  \E k : /\ Learns(a, k) /\ Goes(a, k) /\ At(a, "export")
                  /\ k.open = run[a].open /\ k.agreed = run[a].agreed
                  /\ k.env = IF driver = "uv" THEN run[a].agreed ELSE IsOpen(a)
<1>1. PICK q : q = run[a]
  OBVIOUS
<1>2. q \in Runs
  BY <1>1 DEF Typed
<1>3. PICK env : env = IF driver = "uv" THEN run[a].agreed ELSE IsOpen(a)
  OBVIOUS
<1>4. env \in BOOLEAN
  BY <1>3, OpenTyped
<1>5. PICK k : k = [q EXCEPT !.env = env]
  OBVIOUS
<1>6. k = [q EXCEPT !.open = q.open, !.agreed = q.agreed, !.env = env]
  BY <1>2, <1>5 DEF Runs
<1>7. q.open \in {"unsaid", "yes", "no"} /\ q.agreed \in BOOLEAN
  BY <1>2 DEF Runs
<1>8. Learns(a, k)
  BY <1>1, <1>4, <1>6, <1>7 DEF Learns
<1>9. k.open = q.open /\ k.agreed = q.agreed /\ k.env = env
  BY <1>2, <1>5 DEF Runs
<1>10. Goes(a, k) /\ At(a, "export")
  BY <1>1, <1>3, <1>5 DEF Export
<1> QED
  BY <1>1, <1>3, <1>8, <1>9, <1>10

\* The steps that change neither an account nor the stash.
LEMMA QuietTyped ==
    ASSUME Typed, NEW a \in Accounts,
           \/ Fetch(a) \/ Flavour(a) \/ Question(a) \/ Ask(a) \/ Persist(a)
           \/ Export(a) \/ Done(a)
    PROVE  RunsTyped' /\ PlacesTyped' /\ stash' \in Seq(Entries)
           /\ fetched' \in BOOLEAN /\ flag' \in BOOLEAN /\ short' = short
<1>1. UNCHANGED <<place, stash, short>>
  BY DEF Fetch, Flavour, Question, Ask, Persist, Export, Done
<1>2. fetched' \in BOOLEAN /\ flag' \in BOOLEAN
  BY DEF Typed, Fetch, Flavour, Question, Ask, Persist, Keeps, Export, Done, Runs
<1>3. RunsTyped'
  <2>1. ASSUME NEW s, At(a, s), Goes(a, run[a]) PROVE RunsTyped'
    BY <2>1, AtStep, GoingTyped
  <2>2. ASSUME NEW s, At(a, s), NEW k, Learns(a, k), Goes(a, k) PROVE RunsTyped'
    BY <2>2, AtStep, LearnsTyped, GoingTyped
  <2>3. ASSUME NEW said \in {"success", "failure"}, Ends(a, said) PROVE RunsTyped'
    BY <2>3, EndingTyped
  <2>4. Question(a) => \E k : Learns(a, k) /\ Goes(a, k) /\ At(a, "question")
    BY QuestionLearns
  <2>5. Ask(a) => \E k : Learns(a, k) /\ Goes(a, k) /\ At(a, "ask")
    BY AskLearns
  <2>6. Export(a) => \E k : Learns(a, k) /\ Goes(a, k) /\ At(a, "export")
    BY ExportLearns
  <2> QED
    BY <2>1, <2>2, <2>3, <2>4, <2>5, <2>6 DEF Fetch, Flavour, Persist, Done
<1> QED
  BY <1>1, <1>2, <1>3 DEF Typed, PlacesTyped

LEMMA Pushed ==
    ASSUME NEW S, NEW e \in S, NEW q \in Seq(S)
    PROVE  /\ <<e>> \o q \in Seq(S)
           /\ <<e>> \o q # <<>> /\ Head(<<e>> \o q) = e
           /\ Len(<<e>> \o q) = Len(q) + 1
           /\ \A k \in 1..Len(q) : (<<e>> \o q)[k + 1] = q[k]
<1>1. <<e>> \in Seq(S) /\ Len(<<e>>) = 1 /\ <<e>>[1] = e
  OBVIOUS
<1>2. PICK u \in Seq(S) : u = <<e>>
  BY <1>1
<1>3. /\ u \o q \in Seq(S) /\ Len(u \o q) = Len(q) + 1
      /\ (u \o q)[1] = e /\ \A k \in 1..Len(q) : (u \o q)[k + 1] = q[k]
  BY <1>1, <1>2
<1>4. u \o q # <<>> /\ Head(u \o q) = (u \o q)[1]
  BY <1>3
<1> QED
  BY <1>2, <1>3, <1>4

\* The steps that change the stash.
LEMMA StashTyped ==
    ASSUME Typed, NEW a \in Accounts, Stash(a) \/ Drop(a)
    PROVE  RunsTyped' /\ PlacesTyped' /\ stash' \in Seq(Entries)
<1>1. CASE Stash(a)
  <2>1. /\ run[a] \in Runs /\ run[a].cmd # "none" /\ place[a] \in Places
    BY <1>1, AtStep DEF Stash
  <2>2. [of |-> a, work |-> place[a].work] \in Entries
    BY <2>1 DEF Places, Entries
  <2>3. stash' \in Seq(Entries)
    BY <1>1, <2>2, Pushed DEF Stash, Typed
  <2>4. [place[a] EXCEPT !.work = {}] \in Places
    BY <2>1 DEF Places
  <2>5. PlacesTyped'
    BY <1>1, <2>4, Becoming DEF Stash, PlacesTyped, Typed
  <2>6. /\ [run[a] EXCEPT !.made = stash' # stash] \in Runs
        /\ [run[a] EXCEPT !.made = stash' # stash].cmd # "none"
    BY <2>1 DEF Runs
  <2>7. RunsTyped'
    BY <1>1, <2>6, GoingTyped DEF Stash
  <2> QED
    BY <2>3, <2>5, <2>7
<1>2. CASE Drop(a)
  <2>1. run[a] \in Runs /\ run[a].cmd # "none"
    BY <1>2, AtStep DEF Drop
  <2>2. RunsTyped'
    BY <1>2, <2>1, GoingTyped DEF Drop
  <2>3. stash' \in Seq(Entries)
    BY <1>2 DEF Drop, Typed
  <2> QED
    BY <1>2, <2>2, <2>3 DEF Drop, PlacesTyped, Typed
<1> QED
  BY <1>1, <1>2

\* What a step may make of an account's directory.
MayBecome(a, p) ==
    \/ p \in {[place[a] EXCEPT !.tree = FALSE, !.desc = FALSE, !.work = {},
                               !.live = FALSE, !.recs = {}, !.form = "none"],
              [place[a] EXCEPT !.live = TRUE], [place[a] EXCEPT !.excluded = TRUE],
              [place[a] EXCEPT !.desc = TRUE], [place[a] EXCEPT !.agent = TRUE]}
    \/ \E got \in SUBSET ({"head"} \cup Work), form \in {"open", "native"},
          live, desc \in BOOLEAN :
         p = [place[a] EXCEPT !.recs = got, !.live = live, !.desc = desc, !.form = form]

LEMMA MayBecomeTyped ==
    ASSUME Typed, NEW a \in Accounts, NEW p, MayBecome(a, p)
    PROVE  p \in Places
<1>1. PICK q : q = place[a]
  OBVIOUS
<1>2. q \in Places
  BY <1>1 DEF Typed
<1>3. CASE p = [q EXCEPT !.tree = FALSE, !.desc = FALSE, !.work = {}, !.live = FALSE,
                         !.recs = {}, !.form = "none"]
  BY <1>2, <1>3 DEF Places
<1>4. CASE \/ p = [q EXCEPT !.live = TRUE] \/ p = [q EXCEPT !.excluded = TRUE]
           \/ p = [q EXCEPT !.desc = TRUE] \/ p = [q EXCEPT !.agent = TRUE]
  BY <1>2, <1>4 DEF Places
<1>5. ASSUME NEW got \in SUBSET ({"head"} \cup Work), NEW form \in {"open", "native"},
             NEW live \in BOOLEAN, NEW desc \in BOOLEAN,
             p = [q EXCEPT !.recs = got, !.live = live, !.desc = desc, !.form = form]
      PROVE  p \in Places
  BY <1>2, <1>5 DEF Places
<1> QED
  BY <1>1, <1>3, <1>4, <1>5 DEF MayBecome

\* jBASE makes do with a directory; MVX has no "build".
Unhoused(a) == driver = "jb" \/ (driver = "mvx" /\ At(a, "build"))

\* The records are written, all of them into an account that is there, or the account
\* is known to have come out short.
Writes(a, got, live, desc, form, all) ==
    /\ Becomes(a, [place[a] EXCEPT !.recs = got, !.live = live, !.desc = desc, !.form = form])
    /\ Goes(a, run[a])
    /\ \/ got = all /\ (live \/ Unhoused(a)) /\ short' = short
       \/ short' = short \cup {a}
    /\ got \in SUBSET ({"head"} \cup Work) /\ form \in {"open", "native"}
    /\ live \in BOOLEAN /\ desc \in BOOLEAN

FormOf(open) == IF open THEN "open" ELSE "native"

LEMMA BuildWrites ==
    ASSUME Typed, NEW a \in Accounts, Build(a)
    PROVE  \/ UNCHANGED <<place, short>> /\ Ends(a, "failure")
           \/ \E got : Writes(a, got, place[a].live, place[a].desc, FormOf(run[a].env),
                              Source(a))
<1>1. place[a] \in Places /\ Source(a) \subseteq {"head"} \cup Work
  BY SourceTyped DEF Typed
<1>2. CASE Reaches(a)
  <2>1. PICK got \in SUBSET Source(a) :
           /\ Wrote(a, got, Source(a))
           /\ Becomes(a, [place[a] EXCEPT !.recs = got, !.form = FormOf(run[a].env)])
           /\ Goes(a, run[a])
    BY <1>2 DEF Build, FormOf
  <2>2. PICK q, f : q = place[a] /\ f = FormOf(run[a].env)
    OBVIOUS
  <2>3. [q EXCEPT !.recs = got, !.form = f]
           = [q EXCEPT !.recs = got, !.live = q.live, !.desc = q.desc, !.form = f]
    BY <1>1, <2>2 DEF Places
  <2>4. Becomes(a, [q EXCEPT !.recs = got, !.live = q.live, !.desc = q.desc, !.form = f])
    BY <2>1, <2>2, <2>3
  <2>5. q.live \/ Unhoused(a)
    BY <1>2, <2>2, ConstantsAssumption DEF Reaches, Typed, Unhoused, Build
  <2>6. \/ got = Source(a) /\ short' = short
        \/ short' = short \cup {a}
    BY <2>1 DEF Wrote
  <2>7. f \in {"open", "native"} /\ q.live \in BOOLEAN /\ q.desc \in BOOLEAN
    BY <1>1, <2>2 DEF FormOf, Places
  <2>8. Writes(a, got, q.live, q.desc, f, Source(a))
    BY <1>1, <2>1, <2>2, <2>4, <2>5, <2>6, <2>7 DEF Writes
  <2> QED
    BY <2>2, <2>8
<1>3. CASE ~Reaches(a)
  BY <1>3 DEF Build
<1> QED
  BY <1>2, <1>3

LEMMA MaterialiseWrites ==
    ASSUME Typed, NEW a \in Accounts, Materialise(a)
    PROVE  \E got, live : Writes(a, got, live, live, FormOf(SaysOpen), {"head"})
<1>1. PICK got \in SUBSET {"head"}, live \in BOOLEAN :
         /\ Wrote(a, <<got, live>>, <<{"head"}, TRUE>>)
         /\ Becomes(a, [place[a] EXCEPT !.recs = got, !.live = live, !.desc = live,
                                        !.form = FormOf(SaysOpen)])
         /\ Goes(a, run[a])
  BY DEF Materialise, FormOf
<1>2. \/ got = {"head"} /\ live /\ short' = short
      \/ short' = short \cup {a}
  BY <1>1 DEF Wrote
<1>3. FormOf(SaysOpen) \in {"open", "native"} /\ got \in SUBSET ({"head"} \cup Work)
  BY <1>1 DEF FormOf
<1> QED
  BY <1>1, <1>2, <1>3 DEF Writes

LEMMA ImportWrites ==
    ASSUME Typed, NEW a \in Accounts, Import(a)
    PROVE  \/ UNCHANGED <<place, short>> /\ Ends(a, "failure")
           \/ \E got : Writes(a, got, TRUE, place[a].desc, FormOf(SaysOpen),
                              {"head"} \cup place[a].work)
<1>1. place[a] \in Places /\ short' = short
  BY DEF Typed, Import
<1>2. CASE /\ Becomes(a, [place[a] EXCEPT !.recs = {"head"} \cup place[a].work,
                                        !.live = TRUE, !.form = FormOf(SaysOpen)])
           /\ Goes(a, run[a])
  <2>1. PICK q, f : q = place[a] /\ f = FormOf(SaysOpen)
    OBVIOUS
  <2>2. PICK got : got = {"head"} \cup q.work
    OBVIOUS
  <2>3. [q EXCEPT !.recs = got, !.live = TRUE, !.form = f]
           = [q EXCEPT !.recs = got, !.live = TRUE, !.desc = q.desc, !.form = f]
    BY <1>1, <2>1 DEF Places
  <2>4. Becomes(a, [q EXCEPT !.recs = got, !.live = TRUE, !.desc = q.desc, !.form = f])
    BY <1>2, <2>1, <2>2, <2>3
  <2>5. f \in {"open", "native"} /\ q.desc \in BOOLEAN /\ got \in SUBSET ({"head"} \cup Work)
    BY <1>1, <2>1, <2>2 DEF FormOf, Places
  <2>6. Writes(a, got, TRUE, q.desc, f, got)
    BY <1>1, <1>2, <2>1, <2>4, <2>5 DEF Writes
  <2> QED
    BY <2>1, <2>2, <2>6
<1>3. CASE UNCHANGED place /\ Ends(a, "failure")
  BY <1>1, <1>3
<1> QED
  BY <1>2, <1>3 DEF Import, FormOf

\* The steps that change an account.
LEMMA PreparingTyped ==
    ASSUME Typed, NEW a \in Accounts,
           \/ Clear(a) \/ UvAccount(a) \/ UdtAccount(a) \/ JbAccount(a) \/ Exclude(a)
           \/ Describe(a) \/ Seed(a)
    PROVE  RunsTyped' /\ PlacesTyped' /\ stash' \in Seq(Entries) /\ short' = short
<1>1. \E s : At(a, s)
  BY DEF Clear, UvAccount, UdtAccount, JbAccount, Exclude, Describe, Seed
<1>2. run[a] \in Runs /\ run[a].cmd # "none"
  BY <1>1, AtStep
<1>3. Goes(a, run[a]) \/ Ends(a, "failure")
  BY DEF Clear, UvAccount, UdtAccount, JbAccount, Makes, Exclude, Describe, Seed
<1>4. RunsTyped'
  BY <1>2, <1>3, GoingTyped, EndingTyped
<1>5. UNCHANGED place \/ \E p : MayBecome(a, p) /\ Becomes(a, p)
  BY DEF Clear, UvAccount, UdtAccount, JbAccount, Makes, CannotMake, Exclude, Describe,
         Seed, MayBecome
<1>6. PlacesTyped'
  BY <1>5, MayBecomeTyped, Becoming DEF PlacesTyped, Typed
<1>7. UNCHANGED <<stash, short>>
  BY DEF Clear, UvAccount, UdtAccount, JbAccount, Exclude, Describe, Seed
<1> QED
  BY <1>4, <1>6, <1>7 DEF Typed

LEMMA WritesTyped ==
    ASSUME Typed, NEW a \in Accounts, NEW s, At(a, s), NEW got, NEW live, NEW desc,
           NEW form, NEW all, Writes(a, got, live, desc, form, all)
    PROVE  RunsTyped' /\ PlacesTyped' /\ short' \subseteq Accounts
<1>1. run[a] \in Runs /\ run[a].cmd # "none"
  BY AtStep
<1>2. RunsTyped'
  BY <1>1, GoingTyped DEF Writes
<1>3. PICK p : p = [place[a] EXCEPT !.recs = got, !.live = live, !.desc = desc, !.form = form]
  OBVIOUS
<1>4. MayBecome(a, p) /\ Becomes(a, p)
  BY <1>3 DEF Writes, MayBecome
<1>5. PlacesTyped'
  BY <1>4, MayBecomeTyped, Becoming DEF PlacesTyped
<1>6. short' \subseteq Accounts
  BY DEF Writes, Typed
<1> QED
  BY <1>2, <1>5, <1>6

LEMMA WritingTyped ==
    ASSUME Typed, NEW a \in Accounts, Build(a) \/ Materialise(a) \/ Import(a)
    PROVE  RunsTyped' /\ PlacesTyped' /\ stash' \in Seq(Entries) /\ short' \subseteq Accounts
<1>1. \E s : At(a, s)
  BY DEF Build, Materialise, Import
<1>2. UNCHANGED stash
  BY DEF Build, Materialise, Import
<1>3. \/ UNCHANGED <<place, short>> /\ Ends(a, "failure")
      \/ \E got, live, desc, form, all : Writes(a, got, live, desc, form, all)
  BY BuildWrites, MaterialiseWrites, ImportWrites
<1>4. CASE UNCHANGED <<place, short>> /\ Ends(a, "failure")
  BY <1>2, <1>4, EndingTyped DEF Typed, PlacesTyped
<1>5. ASSUME NEW got, NEW live, NEW desc, NEW form, NEW all,
             Writes(a, got, live, desc, form, all)
      PROVE  RunsTyped' /\ PlacesTyped' /\ short' \subseteq Accounts
  BY <1>1, <1>5, WritesTyped
<1> QED
  BY <1>2, <1>3, <1>4, <1>5 DEF Typed

\* What no step of a command changes.
LEMMA CommandLeaves ==
    ASSUME NEW a, Command(a)
    PROVE  UNCHANGED <<driver, nested, head, cataloged, runs, kills, did, overLive>>
BY DEF Command, Fetch, Flavour, Question, Ask, Persist, Export, Stash, Clear, UvAccount,
       UdtAccount, JbAccount, Exclude, Describe, Seed, Build, Materialise, Import, Drop,
       Done, Bounded, system

LEMMA CommandTyped ==
    ASSUME Typed, NEW a \in Accounts, Command(a)
    PROVE  Typed'
<1>1. CASE \/ Fetch(a) \/ Flavour(a) \/ Question(a) \/ Ask(a) \/ Persist(a)
           \/ Export(a) \/ Done(a)
  BY <1>1, QuietTyped, CommandLeaves DEF Typed, RunsTyped, PlacesTyped
<1>2. CASE Stash(a) \/ Drop(a)
  <2>1. UNCHANGED <<fetched, flag, short>>
    BY <1>2 DEF Stash, Drop
  <2> QED
    BY <1>2, <2>1, StashTyped, CommandLeaves DEF Typed, RunsTyped, PlacesTyped
<1>3. CASE \/ Clear(a) \/ UvAccount(a) \/ UdtAccount(a) \/ JbAccount(a) \/ Exclude(a)
           \/ Describe(a) \/ Seed(a)
  <2>1. UNCHANGED <<fetched, flag>>
    BY <1>3 DEF Clear, UvAccount, UdtAccount, JbAccount, Exclude, Describe, Seed
  <2> QED
    BY <1>3, <2>1, PreparingTyped, CommandLeaves DEF Typed, RunsTyped, PlacesTyped
<1>4. CASE Build(a) \/ Materialise(a) \/ Import(a)
  <2>1. UNCHANGED <<fetched, flag>>
    BY <1>4 DEF Build, Materialise, Import
  <2> QED
    BY <1>4, <2>1, WritingTyped, CommandLeaves DEF Typed, RunsTyped, PlacesTyped
<1> QED
  BY <1>1, <1>2, <1>3, <1>4 DEF Command

LEMMA StartsTyped ==
    ASSUME Typed, NEW a \in Accounts, NEW cmd \in {"clone", "adopt"}, MayStart(a),
           Starts(a, cmd)
    PROVE  /\ RunsTyped' /\ runs' \in 0..MaxRuns
           /\ \A b \in Accounts \ {a} : run'[b] = run[b]
           /\ run'[a].cmd = cmd /\ run'[a].at = 1 /\ run'[a].made = FALSE
           /\ run'[a].already = place[a].live /\ run'[a].told = "nothing"
           /\ run'[a].agreed = FALSE
<1>0. PICK open \in {"unsaid", "yes", "no"} :
         run' = [run EXCEPT ![a] = [Idle EXCEPT !.cmd = cmd, !.at = 1, !.open = open,
                                               !.already = place[a].live]]
  BY DEF Starts, Options
<1> DEFINE r == [Idle EXCEPT !.cmd = cmd, !.at = 1, !.open = open,
                            !.already = place[a].live]
<1>1. /\ r \in Runs /\ r.cmd = cmd /\ r.at = 1 /\ r.made = FALSE
      /\ r.already = place[a].live /\ r.told = "nothing" /\ r.agreed = FALSE
  <2>1. place[a].live \in BOOLEAN
    BY DEF Typed, Places
  <2> QED
    BY <2>1 DEF Idle, Runs
<1>2. run' = [run EXCEPT ![a] = r]
  BY <1>0
<1> HIDE DEF r
<1>3. /\ run' \in [Accounts -> Runs] /\ run'[a] = r
      /\ \A b \in Accounts \ {a} : run'[b] = run[b]
  BY <1>1, <1>2 DEF Typed
<1>4. runs' \in 0..MaxRuns
  BY ConstantsAssumption DEF Starts, MayStart, Typed
<1> QED
  BY <1>1, <1>3, <1>4 DEF RunsTyped, Typed

LEMMA UserTyped ==
    ASSUME Typed, User
    PROVE  Typed'
<1>1. CASE Clone
  <2>1. Root \in Accounts /\ UNCHANGED <<overLive, system, fetched, flag, stash, place,
                                         kills, did, short>>
    BY <1>1, ConstantsAssumption DEF Clone, Starts
  <2> QED
    BY <1>1, <2>1, StartsTyped DEF Clone, Typed, RunsTyped, system
<1>2. ASSUME NEW a \in Here, Adopt(a) PROVE Typed'
  <2>1. a \in Accounts /\ UNCHANGED <<system, fetched, flag, stash, place, kills, did, short>>
    BY <1>2, HereAreAccounts DEF Adopt, Starts
  <2>2. overLive' \subseteq Accounts
    BY <1>2, <2>1 DEF Adopt, Typed
  <2> QED
    BY <1>2, <2>1, <2>2, StartsTyped DEF Adopt, Typed, RunsTyped, system
<1>3. ASSUME NEW a \in Here, CheckOut(a) PROVE Typed'
  <2>1. a \in Accounts
    BY HereAreAccounts
  <2>2. [place[a] EXCEPT !.tree = TRUE, !.desc = TRUE] \in Places
    BY <2>1 DEF Typed, Places
  <2>3. place' \in [Accounts -> Places]
    BY <1>3, <2>1, <2>2, Becoming DEF CheckOut
  <2> QED
    BY <1>3, <2>3 DEF CheckOut, Typed, Bounded, system
<1>4. ASSUME NEW a \in Here, Kill(a) PROVE Typed'
  <2>1. a \in Accounts /\ Idle \in Runs /\ Idle.cmd = "none" /\ Idle.at = 0
    BY HereAreAccounts DEF Idle, Runs
  <2>2. run' = [run EXCEPT ![a] = Idle]
    BY <1>4 DEF Kill
  <2>3. RunsTyped'
    BY <2>1, <2>2 DEF RunsTyped, Typed
  <2>4. kills' \in 0..MaxKills
    BY <1>4, ConstantsAssumption DEF Kill, Typed
  <2> QED
    BY <1>4, <2>3, <2>4 DEF Kill, Typed, RunsTyped, system
<1>5. ASSUME NEW a \in Here, NEW w \in Work, Change(a, w) PROVE Typed'
  <2>1. a \in Accounts
    BY HereAreAccounts
  <2>2. [place[a] EXCEPT !.work = place[a].work \cup {w}] \in Places
    BY <2>1 DEF Typed, Places
  <2>3. place' \in [Accounts -> Places]
    BY <1>5, <2>1, <2>2, Becoming DEF Change
  <2>4. did' \in [Accounts -> SUBSET Work]
    BY <1>5, <2>1 DEF Change, Typed
  <2> QED
    BY <1>5, <2>3, <2>4 DEF Change, Typed, Bounded, system
<1> QED
  BY <1>1, <1>2, <1>3, <1>4, <1>5 DEF User

LEMMA InitTyped == Init => Typed
<1> SUFFICES ASSUME Init PROVE Typed
  OBVIOUS
<1>1. Bare \in Places /\ [Bare EXCEPT !.tree = TRUE, !.desc = TRUE] \in Places
  BY DEF Bare, Places
<1>2. Idle \in Runs /\ Idle.at = 0 /\ Idle.cmd = "none"
  BY DEF Idle, Runs
<1>3. place \in [Accounts -> Places] /\ run \in [Accounts -> Runs]
  BY <1>1, <1>2 DEF Init
<1>4. \A a \in Accounts : run[a].at = 0 <=> run[a].cmd = "none"
  BY <1>2 DEF Init
<1>5. stash \in Seq(Entries) /\ did \in [Accounts -> SUBSET Work]
  BY DEF Init
<1>6. runs \in 0..MaxRuns /\ kills \in 0..MaxKills
  BY ConstantsAssumption DEF Init
<1>7. /\ driver \in Drivers /\ nested \in BOOLEAN /\ cataloged \in BOOLEAN
      /\ head \in {"open", "own", "foreign"} /\ fetched \in BOOLEAN
      /\ flag \in BOOLEAN /\ overLive \subseteq Accounts /\ short \subseteq Accounts
  BY DEF Init
<1> QED
  BY <1>3, <1>4, <1>5, <1>6, <1>7 DEF Typed

LEMMA StaysTyped == Typed /\ [Next]_vars => Typed'
<1> SUFFICES ASSUME Typed, [Next]_vars PROVE Typed'
  OBVIOUS
<1>1. CASE User
  BY <1>1, UserTyped
<1>2. ASSUME NEW a \in Here, Command(a) PROVE Typed'
  BY <1>2, HereAreAccounts, CommandTyped
<1>3. CASE UNCHANGED vars
  BY <1>3 DEF vars, system, Typed
<1> QED
  BY <1>1, <1>2, <1>3 DEF Next

\* The types of AccountBuild hold for any accounts, drivers and faults: a command that
\* is at no step is none (every clone and adopt of uv-git.c, udt-git.c, jb-git.c and
\* mvx-git.c).
THEOREM TypeCorrect == Spec => []TypeOK
<1>1. Spec => []Typed
  BY InitTyped, StaysTyped, PTL DEF Spec
<1> QED
  BY <1>1, TypedIsTypeOK, PTL

-----------------------------------------------------------------------------
(* What a step does, as far as the invariants tell                         *)

\* The other accounts have no part in it.
Alone(a) == /\ \A b \in Accounts \ {a} : run'[b] = run[b] /\ place'[b] = place[b]
            /\ UNCHANGED <<driver, nested, head, did, overLive>>

\* The accounts nothing is said of.
Exempt == overLive \cup short

\* The command at a ends, by itself or because it is killed.
Halts(a) ==
    /\ run'[a].cmd = "none" /\ run'[a].made = FALSE /\ run'[a].agreed = FALSE
    /\ run'[a].told = "success" => At(a, "done")
    /\ Alone(a) /\ place'[a] = place[a] /\ UNCHANGED <<fetched, flag, stash, short>>

Fills == {"build", "materialise", "import"}

\* What step s makes of the account p.
Alters(s, already, p, q) ==
    /\ q.tree => p.tree /\ s # "clear"
    /\ q.desc => (p.desc /\ s # "clear") \/ s \in {"describe", "materialise"}
    /\ s \notin Fills \cup {"clear"} => q.recs = p.recs /\ (p.live => q.live)
    /\ s = "clear" => q.recs = {}
    /\ s \notin {"clear", "stash"} => q.work = p.work
    /\ p.work = {} => q.work = {}
    /\ s = "stash" /\ "stash" \notin Faults => q.work = {}
    /\ p.excluded => q.excluded
    /\ s = "exclude" /\ ~already => q.excluded

\* What it makes of the form, chosen and set, of k: the run before, l: after.
Chooses(a, s, k, l) ==
    /\ s \notin {"question", "ask"} => l.open = k.open /\ l.agreed = k.agreed
    /\ s \notin {"ask", "persist"} => flag' = flag
    /\ flag => flag'
    /\ s = "persist" => (k.agreed /\ ~nested => flag')
    /\ s = "ask" =>
          /\ l.agreed = (l.open = "yes" /\ (head = "open" \/ driver = "mvx"))
          /\ head = "open" => l.open # "unsaid"
          /\ flag' = (flag \/ (l.agreed /\ ~nested))
    /\ s = "export" => l.env = IF driver = "uv" THEN k.agreed ELSE IsOpen(a)

\* The command at a does its step s and goes on.
Advances(a, s) ==
    /\ At(a, s) /\ s # "done" /\ Alone(a)
    /\ run'[a].cmd = run[a].cmd /\ run'[a].at = run[a].at + 1
    /\ run'[a].already = run[a].already /\ run'[a].told = run[a].told
    /\ s # "stash" => run'[a].made = run[a].made
    /\ s = "fetch" => fetched = FALSE /\ fetched' = TRUE
    /\ s # "fetch" => fetched' = fetched
    /\ Chooses(a, s, run[a], run'[a])
    /\ s \notin {"stash", "drop"} => stash' = stash
    /\ s \notin Fills => short' = short
    /\ short' \in {short, short \cup {a}}
    /\ Alters(s, run[a].already, place[a], place'[a])

LEMMA GoesOn ==
    ASSUME Typed, NEW a \in Accounts, Goes(a, run[a])
    PROVE  /\ run'[a].cmd = run[a].cmd /\ run'[a].at = run[a].at + 1
           /\ run'[a].already = run[a].already /\ run'[a].told = run[a].told
           /\ run'[a].made = run[a].made /\ run'[a].env = run[a].env
           /\ run'[a].open = run[a].open /\ run'[a].agreed = run[a].agreed
           /\ \A b \in Accounts \ {a} : run'[b] = run[b]
<1>1. run[a] \in Runs
  BY DEF Typed
<1> QED
  BY <1>1, Going

\* A step that changes no account: it goes on, knowing more or not.
LEMMA GoesQuietly ==
    ASSUME Typed, NEW a \in Accounts, NEW s, At(a, s), NEW k \in Runs, Goes(a, k),
           s \notin {"done", "stash", "drop", "clear", "exclude"}, s \notin Fills,
           k.cmd = run[a].cmd, k.at = run[a].at, k.already = run[a].already,
           k.told = run[a].told, k.made = run[a].made,
           UNCHANGED <<place, stash, short, driver, nested, head, did, overLive>>,
           s = "fetch" => fetched = FALSE /\ fetched' = TRUE, s # "fetch" => fetched' = fetched,
           Chooses(a, s, run[a], k)
    PROVE  Advances(a, s)
<1>1. place'[a] = place[a]
  OBVIOUS
<1>2. Alters(s, run[a].already, place[a], place'[a])
  BY <1>1 DEF Alters
<1>3. Chooses(a, s, run[a], run'[a])
  BY Going DEF Chooses
<1> QED
  BY <1>2, <1>3, Going DEF Advances, Alone

\* What a step that is not about the form does to it.
LEMMA ChoosesNothing ==
    ASSUME NEW a, NEW s, s \notin {"question", "ask", "persist", "export"}, flag' = flag,
           NEW k, NEW l, l.open = k.open, l.agreed = k.agreed
    PROVE  Chooses(a, s, k, l)
BY DEF Chooses

LEMMA EndsHalts ==
    ASSUME Typed, NEW a \in Accounts, NEW said \in {"success", "failure"}, Ends(a, said),
           said = "success" => At(a, "done"),
           UNCHANGED <<place, stash, short, fetched, flag, driver, nested, head, did, overLive>>
    PROVE  Halts(a)
BY Ending DEF Halts, Alone

Quiet(a) == \/ Fetch(a) \/ Flavour(a) \/ Question(a) \/ Ask(a) \/ Persist(a)
            \/ Export(a) \/ Done(a)

LEMMA QuietStep ==
    ASSUME Typed, NEW a \in Accounts, Quiet(a)
    PROVE  Halts(a) \/ \E s : Advances(a, s)
<1>1. UNCHANGED <<place, stash, short, driver, nested, head, did, overLive>>
  BY DEF Quiet, Fetch, Flavour, Question, Ask, Persist, Export, Done, Bounded, system
<1>2. run[a] \in Runs
  BY DEF Typed
<1>3. CASE Fetch(a)
  <2>1. CASE ~fetched /\ fetched' = TRUE /\ Goes(a, run[a])
    <3>0. PICK s : s \in {"fetch"}
      OBVIOUS
    <3>1. At(a, s) /\ fetched = FALSE /\ fetched' = TRUE /\ Chooses(a, s, run[a], run[a])
      BY <1>3, <2>1, <3>0, ChoosesNothing DEF Fetch, Typed
    <3>2. Advances(a, s)
      BY <3>0, <1>1, <1>2, <2>1, <3>1, GoesQuietly DEF Fills
    <3> QED
      BY <3>2
  <2>2. CASE UNCHANGED fetched /\ Ends(a, "failure")
    <3>1. flag' = flag
      BY <1>3 DEF Fetch
    <3> QED
      BY <1>1, <2>2, <3>1, EndsHalts
  <2> QED
    BY <1>3, <2>1, <2>2 DEF Fetch
<1>4. CASE Flavour(a)
  <2>1. CASE Goes(a, run[a])
    <3>0. PICK s : s \in {"flavour"}
      OBVIOUS
    <3>1. At(a, s) /\ fetched' = fetched /\ Chooses(a, s, run[a], run[a])
      BY <1>4, <3>0, ChoosesNothing DEF Flavour
    <3>2. Advances(a, s)
      BY <3>0, <1>1, <1>2, <2>1, <3>1, GoesQuietly DEF Fills
    <3> QED
      BY <3>2
  <2>2. CASE Ends(a, "failure")
    BY <1>1, <1>4, <2>2, EndsHalts DEF Flavour
  <2> QED
    BY <1>4, <2>1, <2>2 DEF Flavour
<1>5. CASE Question(a)
  <2>1. PICK k : Learns(a, k) /\ Goes(a, k) /\ At(a, "question")
    BY <1>5, QuestionLearns
  <2>2. PICK s : s = "question"
    OBVIOUS
  <2>3. fetched' = fetched /\ flag' = flag
    BY <1>5 DEF Question
  <2>4. Chooses(a, s, run[a], k)
    BY <2>2, <2>3 DEF Chooses
  <2>5. Advances(a, s)
    BY <1>1, <2>1, <2>2, <2>3, <2>4, LearnsTyped, GoesQuietly DEF Fills
  <2> QED
    BY <2>5
<1>6. CASE Ask(a)
  <2>1. PICK k : /\ Learns(a, k) /\ Goes(a, k) /\ At(a, "ask")
                 /\ k.agreed = (k.open = "yes" /\ (head = "open" \/ driver = "mvx"))
                 /\ head = "open" => k.open # "unsaid"
                 /\ flag' = (flag \/ (k.agreed /\ ~nested))
    BY <1>6, AskLearns
  <2>2. PICK s : s = "ask"
    OBVIOUS
  <2>3. fetched' = fetched
    BY <1>6 DEF Ask
  <2>4. Chooses(a, s, run[a], k)
    BY <2>1, <2>2 DEF Chooses
  <2>5. Advances(a, s)
    BY <1>1, <2>1, <2>2, <2>3, <2>4, LearnsTyped, GoesQuietly DEF Fills
  <2> QED
    BY <2>5
<1>7. CASE Persist(a)
  <2>0. PICK s : s \in {"persist"}
    OBVIOUS
  <2>1. At(a, s) /\ fetched' = fetched /\ Goes(a, run[a])
    BY <1>7, <2>0 DEF Persist
  <2>2. Chooses(a, s, run[a], run[a])
    BY <1>7, <2>0 DEF Persist, Keeps, Chooses
  <2>3. Advances(a, s)
    BY <2>0, <1>1, <1>2, <2>1, <2>2, GoesQuietly DEF Fills
  <2> QED
    BY <2>3
<1>8. CASE Export(a)
  <2>1. PICK k : /\ Learns(a, k) /\ Goes(a, k) /\ At(a, "export")
                 /\ k.open = run[a].open /\ k.agreed = run[a].agreed
                 /\ k.env = IF driver = "uv" THEN run[a].agreed ELSE IsOpen(a)
    BY <1>8, ExportLearns
  <2>2. PICK s : s = "export"
    OBVIOUS
  <2>3. fetched' = fetched /\ flag' = flag
    BY <1>8 DEF Export
  <2>4. Chooses(a, s, run[a], k)
    BY <2>1, <2>2, <2>3 DEF Chooses
  <2>5. Advances(a, s)
    BY <1>1, <2>1, <2>2, <2>3, <2>4, LearnsTyped, GoesQuietly DEF Fills
  <2> QED
    BY <2>5
<1>9. CASE Done(a)
  BY <1>1, <1>9, EndsHalts DEF Done
<1> QED
  BY <1>3, <1>4, <1>5, <1>6, <1>7, <1>8, <1>9 DEF Quiet

\* One that may change the account.
LEMMA GoesBuilding ==
    ASSUME Typed, NEW a \in Accounts, NEW s, At(a, s), Goes(a, run[a]),
           s \notin {"fetch", "question", "ask", "persist", "export", "stash", "done"},
           \A b \in Accounts \ {a} : place'[b] = place[b],
           UNCHANGED <<driver, nested, head, fetched, flag, did, overLive>>,
           s # "drop" => stash' = stash,
           s \notin Fills => short' = short, short' \in {short, short \cup {a}},
           Alters(s, run[a].already, place[a], place'[a])
    PROVE  Advances(a, s)
<1>1. Chooses(a, s, run[a], run'[a])
  BY GoesOn, ChoosesNothing
<1> QED
  BY <1>1, GoesOn DEF Advances, Alone

Prepares(a) == \/ UvAccount(a) \/ UdtAccount(a) \/ JbAccount(a) \/ Exclude(a)
               \/ Describe(a) \/ Seed(a)

LEMMA PrepareStep ==
    ASSUME Typed, NEW a \in Accounts, Prepares(a)
    PROVE  Halts(a) \/ \E s : Advances(a, s)
<1>1. UNCHANGED <<stash, short, fetched, flag, driver, nested, head, did, overLive>>
  BY DEF Prepares, UvAccount, UdtAccount, JbAccount, Exclude, Describe, Seed, Bounded,
         system
<1>2. PICK q : q = place[a]
  OBVIOUS
<1>3. q \in Places
  BY <1>2 DEF Typed
<1>4. PICK s \in {"account", "exclude", "describe", "seed"} :
         /\ At(a, s)
         /\ \/ Ends(a, "failure") /\ UNCHANGED place
            \/ Goes(a, run[a]) /\ UNCHANGED place /\ (s = "exclude" => run[a].already)
            \/ Goes(a, run[a]) /\ Becomes(a, [q EXCEPT !.live = TRUE]) /\ s = "account"
            \/ Goes(a, run[a]) /\ Becomes(a, [q EXCEPT !.excluded = TRUE])
            \/ Goes(a, run[a]) /\ Becomes(a, [q EXCEPT !.desc = TRUE]) /\ s = "describe"
            \/ Goes(a, run[a]) /\ Becomes(a, [q EXCEPT !.agent = TRUE]) /\ s = "seed"
  <2>1. CASE UvAccount(a) \/ UdtAccount(a) \/ JbAccount(a)
    <3>1. PICK s : s \in {"account"}
      OBVIOUS
    <3> QED
      BY <1>2, <2>1, <3>1 DEF UvAccount, UdtAccount, JbAccount, Makes, CannotMake
  <2>2. CASE Exclude(a)
    BY <1>2, <2>2 DEF Exclude
  <2>3. CASE Describe(a)
    BY <1>2, <2>3 DEF Describe
  <2>4. CASE Seed(a)
    BY <1>2, <2>4 DEF Seed
  <2> QED
    BY <2>1, <2>2, <2>3, <2>4 DEF Prepares
<1>5. CASE Ends(a, "failure") /\ UNCHANGED place
  BY <1>1, <1>5, EndsHalts
<1>6. CASE Goes(a, run[a]) /\ UNCHANGED place /\ (s = "exclude" => run[a].already)
  <2>1. place'[a] = place[a]
    BY <1>6
  <2>2. Alters(s, run[a].already, place[a], place'[a])
    BY <1>4, <1>6, <2>1 DEF Alters, Fills
  <2>3. Advances(a, s)
    BY <1>1, <1>4, <1>6, <2>2, GoesBuilding
  <2> QED
    BY <2>3
<1>7. ASSUME NEW p \in Places, Becomes(a, p), Goes(a, run[a]), p.tree = q.tree,
             p.work = q.work, p.recs = q.recs, q.live => p.live,
             p.desc => q.desc \/ s = "describe", q.excluded => p.excluded,
             s = "exclude" => p.excluded
      PROVE  Advances(a, s)
  <2>1. place'[a] = p /\ \A b \in Accounts \ {a} : place'[b] = place[b]
    BY <1>7, Becoming
  <2>2. Alters(s, run[a].already, q, p)
    BY <1>4, <1>7 DEF Alters, Fills
  <2> QED
    BY <1>1, <1>2, <1>4, <1>7, <2>1, <2>2, GoesBuilding
<1> DEFINE Fine(p) ==
      /\ p \in Places /\ p.tree = q.tree /\ p.work = q.work /\ p.recs = q.recs
      /\ (q.live => p.live) /\ (p.desc => q.desc \/ s = "describe")
      /\ (q.excluded => p.excluded) /\ (s = "exclude" => p.excluded)
<1>8. /\ s = "account" => Fine([q EXCEPT !.live = TRUE])
      /\ Fine([q EXCEPT !.excluded = TRUE])
      /\ s = "describe" => Fine([q EXCEPT !.desc = TRUE])
      /\ s = "seed" => Fine([q EXCEPT !.agent = TRUE])
  BY <1>3 DEF Places
<1>9. ASSUME NEW p, Fine(p), Becomes(a, p), Goes(a, run[a]) PROVE Advances(a, s)
  BY <1>7, <1>9
<1> HIDE DEF Fine
<1> QED
  BY <1>4, <1>5, <1>6, <1>8, <1>9

LEMMA OneStepAt ==
    ASSUME Typed, NEW a \in Accounts, NEW s, At(a, s), NEW t, At(a, t)
    PROVE  s = t
BY DEF At

\* The work is put into an entry of its own, or there is none.
Pushes(a) == /\ stash' \in Seq(Entries)
             /\ stash' # <<>> /\ Head(stash') = [of |-> a, work |-> place[a].work]
             /\ Len(stash') = Len(stash) + 1
             /\ \A k \in 1..Len(stash) : stash'[k + 1] = stash[k]

LEMMA StashStep ==
    ASSUME Typed, NEW a \in Accounts, Stash(a)
    PROVE  /\ Advances(a, "stash")
           /\ \/ Pushes(a)
              \/ stash' = stash /\ run'[a].made = FALSE /\ place'[a] = place[a]
<1>1. /\ At(a, "stash") /\ UNCHANGED <<fetched, flag, short, driver, nested, head, did, overLive>>
  BY DEF Stash, Bounded, system
<1>2. place[a] \in Places /\ run[a] \in Runs
  BY DEF Typed
<1>3. PICK k : k = [run[a] EXCEPT !.made = stash' # stash]
  OBVIOUS
<1>4. /\ k \in Runs /\ k.cmd = run[a].cmd /\ k.at = run[a].at
      /\ k.already = run[a].already /\ k.told = run[a].told /\ k.made = (stash' # stash)
      /\ k.open = run[a].open /\ k.agreed = run[a].agreed
  BY <1>2, <1>3 DEF Runs
<1>5. Goes(a, k)
  BY <1>3 DEF Stash
<1>6. /\ run'[a].cmd = run[a].cmd /\ run'[a].at = run[a].at + 1
      /\ run'[a].already = run[a].already /\ run'[a].told = run[a].told
      /\ run'[a].made = (stash' # stash)
      /\ run'[a].open = run[a].open /\ run'[a].agreed = run[a].agreed
      /\ \A b \in Accounts \ {a} : run'[b] = run[b]
  BY <1>4, <1>5, Going
<1>7. Chooses(a, "stash", run[a], run'[a])
  BY <1>1, <1>6, ChoosesNothing
<1>8. CASE /\ stash' = <<[of |-> a, work |-> place[a].work]>> \o stash
           /\ Becomes(a, [place[a] EXCEPT !.work = {}])
  <2>1. PICK e : e = [of |-> a, work |-> place[a].work]
    OBVIOUS
  <2>2. e \in Entries
    BY <1>2, <2>1 DEF Places, Entries
  <2>3. stash' = <<e>> \o stash
    BY <1>8, <2>1
  <2>4. Pushes(a)
    BY <2>1, <2>2, <2>3, Pushed DEF Pushes, Typed
  <2>5. PICK p : p = [place[a] EXCEPT !.work = {}]
    OBVIOUS
  <2>6. /\ p \in Places /\ p.tree = place[a].tree /\ p.work = {}
        /\ p.recs = place[a].recs /\ p.live = place[a].live /\ p.desc = place[a].desc
        /\ p.excluded = place[a].excluded
    BY <1>2, <2>5 DEF Places
  <2>7. place'[a] = p /\ \A b \in Accounts \ {a} : place'[b] = place[b]
    BY <1>8, <2>5, <2>6, Becoming
  <2>8. Alters("stash", run[a].already, place[a], p)
    BY <2>6 DEF Alters, Fills
  <2>9. Advances(a, "stash")
    BY <1>1, <1>6, <1>7, <2>7, <2>8 DEF Advances, Alone
  <2> QED
    BY <2>4, <2>9
<1>9. CASE (place[a].work = {} \/ "stash" \in Faults) /\ UNCHANGED <<stash, place>>
  <2>1. place'[a] = place[a] /\ \A b \in Accounts \ {a} : place'[b] = place[b]
    BY <1>9
  <2>2. Alters("stash", run[a].already, place[a], place'[a])
    BY <1>9, <2>1 DEF Alters, Fills
  <2>3. Advances(a, "stash")
    BY <1>1, <1>6, <1>7, <2>1, <2>2 DEF Advances, Alone
  <2> QED
    BY <1>6, <1>9, <2>1, <2>3
<1> QED
  BY <1>8, <1>9 DEF Stash

LEMMA DropStep ==
    ASSUME Typed, NEW a \in Accounts, Drop(a)
    PROVE  Advances(a, "drop") /\ place'[a] = place[a]
<1>1. PICK s : s \in {"drop"}
  OBVIOUS
<1>2. /\ At(a, s) /\ Goes(a, run[a])
      /\ UNCHANGED <<place, fetched, flag, short, driver, nested, head, did, overLive>>
  BY <1>1 DEF Drop, Bounded, system
<1>3. place'[a] = place[a] /\ \A b \in Accounts \ {a} : place'[b] = place[b]
  BY <1>2
<1>4. Alters(s, run[a].already, place[a], place'[a])
  BY <1>1, <1>3 DEF Alters, Fills
<1>5. Advances(a, s)
  BY <1>1, <1>2, <1>3, <1>4, GoesBuilding
<1> QED
  BY <1>1, <1>3, <1>5

LEMMA ClearStep ==
    ASSUME Typed, NEW a \in Accounts, Clear(a)
    PROVE  Advances(a, "clear")
<1>1. PICK s : s \in {"clear"}
  OBVIOUS
<1>2. /\ At(a, s) /\ Goes(a, run[a])
      /\ UNCHANGED <<stash, short, fetched, flag, driver, nested, head, did, overLive>>
  BY <1>1 DEF Clear, Bounded, system
<1>3. PICK q : q = place[a]
  OBVIOUS
<1>4. PICK p : p = [q EXCEPT !.tree = FALSE, !.desc = FALSE, !.work = {},
                             !.live = FALSE, !.recs = {}, !.form = "none"]
  OBVIOUS
<1>5. q \in Places
  BY <1>3 DEF Typed
<1>6. /\ p \in Places /\ p.tree = FALSE /\ p.desc = FALSE /\ p.work = {}
      /\ p.recs = {} /\ p.excluded = q.excluded
  BY <1>4, <1>5 DEF Places
<1>7. Becomes(a, p)
  BY <1>3, <1>4 DEF Clear
<1>8. place'[a] = p /\ \A b \in Accounts \ {a} : place'[b] = place[b]
  BY <1>6, <1>7, Becoming
<1>9. Alters(s, run[a].already, q, p)
  BY <1>1, <1>6 DEF Alters, Fills
<1>10. Advances(a, s)
  BY <1>1, <1>2, <1>3, <1>8, <1>9, GoesBuilding
<1> QED
  BY <1>1, <1>10

\* A command is at a step of its script.
Positions == \A a \in Accounts :
                run[a].cmd # "none" => run[a].at \in 1..DoneAt(run[a].cmd)

LEMMA AtPlace ==
    ASSUME Typed, Positions, NEW a \in Accounts, NEW s, At(a, s)
    PROVE  /\ run[a].cmd \in {"clone", "adopt"} /\ run[a].at \in 1..DoneAt(run[a].cmd)
           /\ BuildAt(run[a].cmd) \in Nat /\ DoneAt(run[a].cmd) \in Nat
           /\ Fits(run[a].cmd, run[a].at, s)
<1>1. run[a] \in Runs /\ run[a].cmd # "none"
  BY AtStep
<1>2. run[a].cmd \in {"clone", "adopt"} /\ run[a].at \in 1..DoneAt(run[a].cmd)
  BY <1>1 DEF Runs, Positions
<1>3. s = Script(run[a].cmd)[run[a].at]
  BY DEF At
<1>4. driver \in Drivers
  BY DEF Typed
<1> QED
  BY <1>2, <1>3, <1>4, Scripts

\* The records are written in the form asked for, and all of them where the account
\* does not come out short.
Filled(a, s) ==
    /\ s = "build" => place'[a].form = FormOf(run[a].env)
    /\ s \in {"materialise", "import"} => place'[a].form = FormOf(SaysOpen)
    /\ s = "materialise" /\ place'[a].desc => place'[a].live
    /\ a \notin short' =>
          /\ place'[a].live \/ driver = "jb"
          /\ s = "build" => place'[a].recs = Source(a)
          /\ s = "materialise" => place'[a].recs = {"head"}
          /\ s = "import" => place'[a].recs = {"head"} \cup place[a].work

LEMMA WritesAdvances ==
    ASSUME Typed, Positions, NEW a \in Accounts, NEW s \in Fills, At(a, s), NEW got,
           NEW live, NEW desc, NEW form, NEW all, Writes(a, got, live, desc, form, all),
           UNCHANGED <<stash, fetched, flag, driver, nested, head, did, overLive>>,
           s # "materialise" => desc = place[a].desc
    PROVE  /\ Advances(a, s)
           /\ place'[a].form = form /\ place'[a].live = live /\ place'[a].desc = desc
           /\ a \notin short' => place'[a].recs = all /\ (place'[a].live \/ driver = "jb")
<1>1. PICK q : q = place[a]
  OBVIOUS
<1>2. q \in Places
  BY <1>1 DEF Typed
<1>3. PICK p : p = [q EXCEPT !.recs = got, !.live = live, !.desc = desc, !.form = form]
  OBVIOUS
<1>4. /\ p \in Places /\ p.tree = q.tree /\ p.desc = desc /\ p.work = q.work
      /\ p.live = live /\ p.excluded = q.excluded /\ p.recs = got /\ p.form = form
  BY <1>2, <1>3 DEF Places, Writes
<1>5. Becomes(a, p) /\ Goes(a, run[a])
  BY <1>1, <1>3 DEF Writes
<1>6. place'[a] = p /\ \A b \in Accounts \ {a} : place'[b] = place[b]
  BY <1>4, <1>5, Becoming
<1>7. Alters(s, run[a].already, q, p)
  BY <1>1, <1>4 DEF Alters, Fills
<1>8. short' \in {short, short \cup {a}}
  BY DEF Writes
<1>9. Advances(a, s)
  BY <1>1, <1>5, <1>6, <1>7, <1>8, GoesBuilding DEF Fills
<1>10. Unhoused(a) => driver = "jb"
  BY AtPlace DEF Unhoused, Fits
<1>11. a \notin short' => got = all /\ (live \/ driver = "jb")
  BY <1>10 DEF Writes
<1> QED
  BY <1>4, <1>6, <1>9, <1>11

LEMMA FillStep ==
    ASSUME Typed, Positions, NEW a \in Accounts, Build(a) \/ Materialise(a) \/ Import(a)
    PROVE  Halts(a) \/ \E s \in Fills : Advances(a, s) /\ Filled(a, s)
<1>1. UNCHANGED <<stash, fetched, flag, driver, nested, head, did, overLive>>
  BY DEF Build, Materialise, Import, Bounded, system
<1>2. CASE UNCHANGED <<place, short>> /\ Ends(a, "failure")
  BY <1>1, <1>2, EndsHalts
<1>3. ASSUME NEW got, Build(a),
             Writes(a, got, place[a].live, place[a].desc, FormOf(run[a].env), Source(a))
      PROVE  Advances(a, "build") /\ Filled(a, "build")
  <2>1. PICK s \in Fills : s = "build"
    BY DEF Fills
  <2>2. At(a, s)
    BY <1>3, <2>1 DEF Build
  <2>3. PICK q, f, r : q = place[a] /\ f = FormOf(run[a].env) /\ r = Source(a)
    OBVIOUS
  <2>4. Writes(a, got, q.live, q.desc, f, r)
    BY <1>3, <2>3
  <2>5. /\ Advances(a, s) /\ place'[a].form = f
        /\ a \notin short' => place'[a].recs = r /\ (place'[a].live \/ driver = "jb")
    BY <1>1, <2>1, <2>2, <2>3, <2>4, WritesAdvances
  <2> QED
    BY <2>1, <2>3, <2>5 DEF Filled
<1>4. ASSUME NEW got, NEW live, Materialise(a),
             Writes(a, got, live, live, FormOf(SaysOpen), {"head"})
      PROVE  Advances(a, "materialise") /\ Filled(a, "materialise")
  <2>1. PICK s \in Fills : s = "materialise"
    BY DEF Fills
  <2>2. At(a, s)
    BY <1>4, <2>1 DEF Materialise
  <2>3. PICK f, r : f = FormOf(SaysOpen) /\ r = {"head"}
    OBVIOUS
  <2>4. Writes(a, got, live, live, f, r)
    BY <1>4, <2>3
  <2>5. /\ Advances(a, s) /\ place'[a].form = f
        /\ place'[a].live = live /\ place'[a].desc = live
        /\ a \notin short' => place'[a].recs = r /\ (place'[a].live \/ driver = "jb")
    BY <1>1, <2>1, <2>2, <2>4, WritesAdvances
  <2> QED
    BY <2>1, <2>3, <2>5 DEF Filled
<1>5. ASSUME NEW got, Import(a),
             Writes(a, got, TRUE, place[a].desc, FormOf(SaysOpen), {"head"} \cup place[a].work)
      PROVE  Advances(a, "import") /\ Filled(a, "import")
  <2>1. PICK s \in Fills : s = "import"
    BY DEF Fills
  <2>2. At(a, s)
    BY <1>5, <2>1 DEF Import
  <2>3. PICK d, f, r, live : /\ d = place[a].desc /\ f = FormOf(SaysOpen)
                             /\ r = {"head"} \cup place[a].work /\ live = TRUE
    OBVIOUS
  <2>4. Writes(a, got, live, d, f, r)
    BY <1>5, <2>3
  <2>5. s # "materialise" => d = place[a].desc
    BY <2>3
  <2>6. /\ Advances(a, s) /\ place'[a].form = f
        /\ a \notin short' => place'[a].recs = r /\ (place'[a].live \/ driver = "jb")
    BY <1>1, <2>2, <2>4, <2>5, WritesAdvances
  <2> QED
    BY <2>1, <2>3, <2>6 DEF Filled
<1>6. {"build", "materialise", "import"} = Fills
  BY DEF Fills
<1>7. CASE Build(a)
  BY <1>2, <1>3, <1>6, <1>7, BuildWrites
<1>8. CASE Materialise(a)
  BY <1>2, <1>4, <1>6, <1>8, MaterialiseWrites
<1>9. CASE Import(a)
  BY <1>2, <1>5, <1>6, <1>9, ImportWrites
<1> QED
  BY <1>7, <1>8, <1>9

LEMMA CommandMoves ==
    ASSUME Typed, Positions, NEW a \in Accounts, Command(a)
    PROVE  /\ Halts(a) \/ \E s : Advances(a, s)
           /\ At(a, "stash") => Stash(a)
           /\ At(a, "drop") => Drop(a)
           /\ \A s \in Fills : Advances(a, s) => Filled(a, s)
<1>1. Halts(a) \/ \E s : Advances(a, s)
  BY QuietStep, PrepareStep, StashStep, DropStep, ClearStep, FillStep
     DEF Command, Quiet, Prepares
<1>2. PICK t : /\ At(a, t)
               /\ t \in {"stash"} => Stash(a)
               /\ t \in {"drop"} => Drop(a)
               /\ t \in Fills => Build(a) \/ Materialise(a) \/ Import(a)
  <2>1. CASE Stash(a)
    <3>1. At(a, "stash") /\ "stash" \notin Fills
      BY <2>1 DEF Stash, Fills
    <3> QED
      BY <2>1, <3>1
  <2>2. CASE Drop(a)
    <3>1. At(a, "drop") /\ "drop" \notin Fills
      BY <2>2 DEF Drop, Fills
    <3> QED
      BY <2>2, <3>1
  <2>3. CASE Build(a) \/ Materialise(a) \/ Import(a)
    <3>1. PICK t \in Fills : At(a, t)
      BY <2>3 DEF Build, Materialise, Import, Fills
    <3>2. t \notin {"stash", "drop"}
      BY <3>1 DEF Fills
    <3> QED
      BY <2>3, <3>1, <3>2
  <2>4. CASE Quiet(a) \/ Prepares(a) \/ Clear(a)
    <3>1. \E t \in {"fetch", "flavour", "question", "ask", "persist", "export", "done"} :
             Quiet(a) => At(a, t)
      BY DEF Quiet, Fetch, Flavour, Question, Ask, Persist, Export, Done
    <3>2. \E t \in {"account", "exclude", "describe", "seed", "clear"} :
             Prepares(a) \/ Clear(a) => At(a, t)
      BY DEF Prepares, UvAccount, UdtAccount, JbAccount, Exclude, Describe, Seed, Clear
    <3>3. \A t \in {"fetch", "flavour", "question", "ask", "persist", "export", "done",
                   "account", "exclude", "describe", "seed", "clear"} :
             t \notin {"stash", "drop"} /\ t \notin Fills
      BY DEF Fills
    <3>4. PICK t : At(a, t) /\ t \notin {"stash", "drop"} /\ t \notin Fills
      BY <2>4, <3>1, <3>2, <3>3
    <3> QED
      BY <3>4
  <2> QED
    BY <2>1, <2>2, <2>3, <2>4 DEF Command, Quiet, Prepares
<1>3. \A u : At(a, u) => u = t
  BY <1>2, OneStepAt
<1>4. ASSUME NEW s \in Fills, Advances(a, s) PROVE Filled(a, s)
  <2>1. At(a, s) /\ run'[a].cmd # "none"
    BY <1>4, AtStep DEF Advances
  <2>2. ~Halts(a)
    BY <2>1 DEF Halts
  <2>3. PICK u \in Fills : Advances(a, u) /\ Filled(a, u)
    BY <1>2, <1>3, <1>4, <2>1, <2>2, FillStep
  <2>4. u = s
    BY <2>1, <2>3, OneStepAt DEF Advances
  <2> QED
    BY <2>3, <2>4
<1> QED
  BY <1>1, <1>2, <1>3, <1>4

\* The user starts a command at a.
Begins(a, cmd) ==
    /\ run[a].cmd = "none" /\ run'[a].cmd = cmd /\ run'[a].at = 1
    /\ run'[a].made = FALSE /\ run'[a].already = place[a].live
    /\ run'[a].told = "nothing" /\ run'[a].agreed = FALSE
    /\ cmd = "clone" => ~nested
    /\ \A b \in Accounts \ {a} : run'[b] = run[b]
    /\ AtOnce = 1 => \A b \in Accounts : run[b].cmd = "none"
    /\ UNCHANGED <<driver, nested, head, fetched, flag, stash, place, did, short>>
    /\ cmd = "clone" => UNCHANGED overLive
    /\ cmd = "adopt" => /\ place[a].desc
                        /\ overLive' = IF place[a].live THEN overLive \cup {a} ELSE overLive

\* The user works on the checkout of a, or takes one.
Touches(a) ==
    /\ run[a].cmd = "none"
    /\ UNCHANGED <<driver, nested, head, fetched, flag, stash, overLive, short, run>>
    /\ \A b \in Accounts \ {a} : place'[b] = place[b] /\ did'[b] = did[b]
    /\ place'[a].recs = place[a].recs /\ place'[a].live = place[a].live
    /\ place'[a].excluded = place[a].excluded
    /\ place[a].work \subseteq place'[a].work
    /\ "edit" \in did'[a] => "edit" \in did[a] \/ "edit" \in place'[a].work
    /\ fetched \/ (place[a].tree /\ place'[a].tree = place[a].tree)
    /\ place'[a].desc => place[a].desc \/ place[a].recs = {}

LEMMA StartsBegins ==
    ASSUME Typed, NEW a \in Accounts, NEW cmd \in {"clone", "adopt"}, MayStart(a),
           Starts(a, cmd), cmd = "clone" => UNCHANGED overLive /\ ~nested,
           cmd = "adopt" =>
              /\ place[a].desc
              /\ overLive' = IF place[a].live THEN overLive \cup {a} ELSE overLive
    PROVE  Begins(a, cmd)
<1>1. /\ run'[a].cmd = cmd /\ run'[a].at = 1 /\ run'[a].made = FALSE
      /\ run'[a].already = place[a].live /\ run'[a].told = "nothing"
      /\ run'[a].agreed = FALSE
      /\ \A b \in Accounts \ {a} : run'[b] = run[b]
  BY StartsTyped
<1>2. /\ run[a].cmd = "none"
      /\ AtOnce = 1 => \A b \in Accounts : run[b].cmd = "none"
  BY DEF MayStart
<1>3. UNCHANGED <<driver, nested, head, fetched, flag, stash, place, did, short>>
  BY DEF Starts, system
<1> QED
  BY <1>1, <1>2, <1>3 DEF Begins

LEMMA UserMoves ==
    ASSUME Typed, User
    PROVE  \E a \in Accounts :
              Halts(a) \/ Touches(a) \/ \E cmd \in {"clone", "adopt"} : Begins(a, cmd)
<1>1. CASE Clone
  <2>1. MayStart(Root) /\ Starts(Root, "clone") /\ UNCHANGED overLive /\ ~nested /\ Root \in Accounts
    BY <1>1, ConstantsAssumption DEF Clone
  <2>2. PICK cmd : cmd \in {"clone"}
    OBVIOUS
  <2>3. Begins(Root, cmd)
    BY <2>1, <2>2, StartsBegins
  <2> QED
    BY <2>1, <2>2, <2>3
<1>2. ASSUME NEW a \in Here, Adopt(a) PROVE Begins(a, "adopt") /\ a \in Accounts
  <2>1. a \in Accounts
    BY HereAreAccounts
  <2>2. PICK cmd : cmd \in {"adopt"}
    OBVIOUS
  <2>3. Begins(a, cmd)
    BY <1>2, <2>1, <2>2, StartsBegins DEF Adopt
  <2> QED
    BY <2>1, <2>2, <2>3
<1>3. ASSUME NEW a \in Here, CheckOut(a) PROVE Touches(a) /\ a \in Accounts
  <2>1. a \in Accounts /\ place[a] \in Places
    BY HereAreAccounts DEF Typed
  <2>2. PICK p : p = [place[a] EXCEPT !.tree = TRUE, !.desc = TRUE]
    OBVIOUS
  <2>3. /\ p \in Places /\ p.recs = place[a].recs /\ p.live = place[a].live
        /\ p.excluded = place[a].excluded /\ p.work = place[a].work
    BY <2>1, <2>2 DEF Places
  <2>4. place'[a] = p /\ \A b \in Accounts \ {a} : place'[b] = place[b]
    BY <1>3, <2>1, <2>2, <2>3, Becoming DEF CheckOut
  <2> QED
    BY <1>3, <2>1, <2>3, <2>4 DEF CheckOut, Touches, Bounded, system
<1>4. ASSUME NEW a \in Here, Kill(a) PROVE Halts(a) /\ a \in Accounts
  <2>1. a \in Accounts /\ run' = [run EXCEPT ![a] = Idle]
    BY <1>4, HereAreAccounts DEF Kill
  <2>2. run'[a] = Idle /\ \A b \in Accounts \ {a} : run'[b] = run[b]
    BY <2>1 DEF Typed
  <2> QED
    BY <1>4, <2>1, <2>2 DEF Kill, Halts, Alone, Idle, system
<1>5. ASSUME NEW a \in Here, NEW w \in Work, Change(a, w) PROVE Touches(a) /\ a \in Accounts
  <2>1. a \in Accounts /\ place[a] \in Places
    BY HereAreAccounts DEF Typed
  <2>2. PICK p : p = [place[a] EXCEPT !.work = place[a].work \cup {w}]
    OBVIOUS
  <2>3. /\ p \in Places /\ p.recs = place[a].recs /\ p.live = place[a].live
        /\ p.excluded = place[a].excluded /\ p.work = place[a].work \cup {w}
        /\ p.tree = place[a].tree /\ p.desc = place[a].desc
    BY <2>1, <2>2 DEF Places
  <2>4. place'[a] = p /\ \A b \in Accounts \ {a} : place'[b] = place[b]
    BY <1>5, <2>1, <2>2, <2>3, Becoming DEF Change
  <2>5. did'[a] = did[a] \cup {w} /\ \A b \in Accounts \ {a} : did'[b] = did[b]
    BY <1>5, <2>1 DEF Change, Typed
  <2> QED
    BY <1>5, <2>1, <2>3, <2>4, <2>5 DEF Change, Touches, Bounded, system
<1> QED
  BY <1>1, <1>2, <1>3, <1>4, <1>5 DEF User

\* One step of a command, with what its name says of it.
Works(a, s) ==
    /\ Advances(a, s)
    /\ s = "stash" => Stash(a)
    /\ s = "drop" => Drop(a)
    /\ s \in Fills => Filled(a, s)

LEMMA Moves ==
    ASSUME Typed, Positions, [Next]_vars
    PROVE  \/ UNCHANGED vars
           \/ \E a \in Accounts :
                \/ Halts(a) \/ Touches(a)
                \/ \E cmd \in {"clone", "adopt"} : Begins(a, cmd)
                \/ \E s : Works(a, s)
<1>1. ASSUME NEW a \in Here, Command(a)
      PROVE  a \in Accounts /\ (Halts(a) \/ \E s : Works(a, s))
  <2>1. a \in Accounts
    BY HereAreAccounts
  <2>2. ASSUME NEW s, Advances(a, s) PROVE Works(a, s)
    BY <1>1, <2>1, <2>2, CommandMoves DEF Works, Advances
  <2> QED
    BY <1>1, <2>1, <2>2, CommandMoves
<1> QED
  BY <1>1, UserMoves DEF Next

-----------------------------------------------------------------------------
(* What holds of a command on its way, whatever else runs                  *)

\* Whether the command of a works on an account of its own making: past the fetch of a
\* clone, in an adopt from the first step.
Underway(a) == run[a].cmd = "adopt" \/ (run[a].cmd = "clone" /\ run[a].at > 1)

\* Before there is a repository there is nothing but a clone about to fetch.
Unfetched == ~fetched => \A a \in Accounts :
    /\ ~place[a].tree /\ ~place[a].desc /\ ~place[a].live /\ place[a].recs = {}
    /\ run[a].cmd # "none" => run[a].cmd = "clone" /\ run[a].at = 1 /\ ~run[a].already

\* Past "clear", or the fetch, there is no checkout.
Cleared == \A a \in Accounts :
    Underway(a) /\ driver # "mvx" /\ (run[a].cmd = "adopt" => run[a].at > 4)
        => ~place[a].tree /\ (driver = "jb" => ~place[a].desc)

Always == Typed /\ Positions /\ Unfetched /\ Cleared

LEMMA PositionsStay == Typed /\ Positions /\ [Next]_vars => Positions'
<1> SUFFICES ASSUME Typed, Positions, [Next]_vars PROVE Positions'
  OBVIOUS
<1>1. ASSUME NEW a \in Accounts, Halts(a) \/ Touches(a) PROVE Positions'
  <2>1. driver' = driver
    BY <1>1 DEF Halts, Touches, Alone
  <2>2. ASSUME NEW b \in Accounts, run'[b].cmd # "none" PROVE run'[b] = run[b]
    BY <1>1, <2>2 DEF Halts, Touches, Alone
  <2>3. ASSUME NEW b \in Accounts, run'[b].cmd # "none"
        PROVE  run'[b].at \in 1..DoneAt(run'[b].cmd)
    BY <2>2, <2>3 DEF Positions
  <2> QED
    BY <2>1, <2>3 DEF Positions, DoneAt, BuildAt
<1>2. ASSUME NEW a \in Accounts, NEW cmd \in {"clone", "adopt"}, Begins(a, cmd)
      PROVE  Positions'
  <2>1. driver \in {"uv", "udt", "jb", "mvx"}
    BY ConstantsAssumption DEF Typed
  <2>2. 1 \in 1..DoneAt(cmd)
    BY <2>1 DEF DoneAt, BuildAt
  <2>3. driver' = driver
    BY <1>2 DEF Begins
  <2> QED
    BY <1>2, <2>2, <2>3 DEF Begins, Positions, DoneAt, BuildAt
<1>3. ASSUME NEW a \in Accounts, NEW s, Works(a, s) PROVE Positions'
  <2>1. At(a, s) /\ s # "done"
    BY <1>3 DEF Works, Advances
  <2>2. /\ run[a].at \in 1..DoneAt(run[a].cmd) /\ DoneAt(run[a].cmd) \in Nat
        /\ run[a].at # DoneAt(run[a].cmd)
    BY <2>1, AtPlace DEF Fits
  <2>3. run[a].at + 1 \in 1..DoneAt(run[a].cmd)
    BY <2>2
  <2> QED
    BY <1>3, <2>3 DEF Works, Advances, Alone, Positions, DoneAt, BuildAt
<1>4. CASE UNCHANGED vars
  BY <1>4 DEF vars, system, Positions, DoneAt, BuildAt
<1> QED
  BY <1>1, <1>2, <1>3, <1>4, Moves

LEMMA UnfetchedStays == Typed /\ Positions /\ Unfetched /\ [Next]_vars => Unfetched'
<1> SUFFICES ASSUME Typed, Positions, Unfetched, [Next]_vars PROVE Unfetched'
  OBVIOUS
<1>1. ASSUME NEW a \in Accounts, Halts(a) PROVE Unfetched'
  BY <1>1 DEF Halts, Alone, Unfetched
<1>2. ASSUME NEW a \in Accounts, Touches(a) PROVE Unfetched'
  BY <1>2 DEF Touches, Unfetched
<1>3. ASSUME NEW a \in Accounts, NEW cmd \in {"clone", "adopt"}, Begins(a, cmd)
      PROVE  Unfetched'
  BY <1>3 DEF Begins, Unfetched
<1>4. ASSUME NEW a \in Accounts, NEW s, Works(a, s) PROVE Unfetched'
  <2>1. At(a, s)
    BY <1>4 DEF Works, Advances
  <2>2. CASE ~fetched
    <3>1. s = "fetch"
      BY <2>1, <2>2, AtPlace DEF Fits, Unfetched
    <3> QED
      BY <1>4, <3>1 DEF Works, Advances, Unfetched
  <2>3. CASE fetched
    <3>1. fetched'
      BY <1>4, <2>3 DEF Works, Advances
    <3> QED
      BY <3>1 DEF Unfetched
  <2> QED
    BY <2>2, <2>3
<1>5. CASE UNCHANGED vars
  BY <1>5 DEF vars, Unfetched
<1> QED
  BY <1>1, <1>2, <1>3, <1>4, <1>5, Moves

LEMMA ClearedStays ==
    Typed /\ Positions /\ Unfetched /\ Cleared /\ [Next]_vars => Cleared'
<1> SUFFICES ASSUME Typed, Positions, Unfetched, Cleared, [Next]_vars PROVE Cleared'
  OBVIOUS
<1>1. ASSUME NEW a \in Accounts, Halts(a) PROVE Cleared'
  BY <1>1 DEF Halts, Alone, Cleared, Underway
<1>2. ASSUME NEW a \in Accounts, Touches(a) PROVE Cleared'
  BY <1>2 DEF Touches, Cleared, Underway
<1>3. ASSUME NEW a \in Accounts, NEW cmd \in {"clone", "adopt"}, Begins(a, cmd)
      PROVE  Cleared'
  BY <1>3 DEF Begins, Cleared, Underway
<1>4. ASSUME NEW a \in Accounts, NEW s, Works(a, s) PROVE Cleared'
  <2>1. At(a, s) /\ Advances(a, s)
    BY <1>4 DEF Works, Advances
  <2>2. Fits(run[a].cmd, run[a].at, s) /\ run[a].at \in Nat
    BY <2>1, AtPlace
  <2>3. /\ place'[a].tree => place[a].tree /\ s # "clear"
        /\ place'[a].desc => (place[a].desc /\ s # "clear") \/ s \in {"describe", "materialise"}
    BY <2>1 DEF Advances, Alters
  <2>4. ASSUME Underway(a)', driver # "mvx", run[a].cmd = "adopt" => run[a].at + 1 > 4
        PROVE  ~place'[a].tree /\ (driver = "jb" => ~place'[a].desc)
    <3>1. run[a].cmd = "adopt" \/ run[a].cmd = "clone"
      BY <2>1, <2>4 DEF Advances, Underway
    <3>2. CASE s = "clear"
      BY <2>2, <2>3, <3>2
    <3>3. CASE s = "fetch"
      <4>1. ~place[a].tree /\ ~place[a].desc
        BY <2>1, <3>3 DEF Advances, Unfetched
      <4> QED
        BY <2>3, <3>3, <4>1
    <3>4. CASE s # "clear" /\ s # "fetch"
      <4>1. run[a].cmd = "adopt" => run[a].at > 4
        BY <2>2, <2>4, <3>4 DEF Fits
      <4>2. run[a].cmd = "clone" => run[a].at > 1
        BY <2>1, <2>2, <3>4, AtPlace DEF Fits
      <4>3. ~place[a].tree /\ (driver = "jb" => ~place[a].desc)
        BY <2>4, <3>1, <4>1, <4>2 DEF Cleared, Underway
      <4> QED
        BY <2>2, <2>3, <2>4, <4>3 DEF Fits
    <3> QED
      BY <3>2, <3>3, <3>4
  <2> QED
    BY <2>1, <2>4 DEF Advances, Alone, Cleared, Underway
<1>5. CASE UNCHANGED vars
  BY <1>5 DEF vars, system, Cleared, Underway
<1> QED
  BY <1>1, <1>2, <1>3, <1>4, <1>5, Moves

LEMMA InitAlways == Init => Always
<1> SUFFICES ASSUME Init PROVE Always
  OBVIOUS
<1>1. \A a \in Accounts : run[a].cmd = "none"
  BY DEF Init, Idle
<1>2. Positions /\ Cleared
  BY <1>1 DEF Positions, Cleared, Underway
<1>3. ASSUME ~fetched, NEW a \in Accounts
      PROVE  ~place[a].tree /\ ~place[a].desc /\ ~place[a].live /\ place[a].recs = {}
  <2>1. place[a] = Bare
    BY <1>3 DEF Init
  <2> QED
    BY <2>1 DEF Bare
<1> QED
  BY <1>1, <1>2, <1>3, InitTyped DEF Always, Unfetched

LEMMA AlwaysStays == Always /\ [Next]_vars => Always'
BY StaysTyped, PositionsStay, UnfetchedStays, ClearedStays DEF Always

\* Whatever runs beside it and wherever commands are killed, the records of an account
\* are never built over a checkout (mv_git_worktree_clear): a clone fetches none, an
\* adopt has cleared it, and nobody checks one out under a command.
THEOREM BuildsInClearedTree == Spec => BuiltInClearedTree
<1>1. Always /\ [Next]_vars =>
         [driver # "mvx" =>
             \A a \in Accounts : At(a, "build") /\ place'[a].recs # {} => ~place'[a].tree]_vars
  <2> SUFFICES ASSUME Always, [Next]_vars, driver # "mvx", NEW b \in Accounts,
                      At(b, "build"), place'[b].recs # {}, vars' # vars
               PROVE  ~place'[b].tree
    OBVIOUS
  <2>1. /\ Fits(run[b].cmd, run[b].at, "build") /\ run[b].cmd \in {"clone", "adopt"}
        /\ run[b].at \in Nat
    BY AtPlace DEF Always
  <2>2. run[b].at > 4
    BY <2>1, ConstantsAssumption DEF Fits, BuildAt, Always, Typed
  <2>3. ~place[b].tree /\ run[b].cmd # "none"
    BY <2>1, <2>2 DEF Always, Cleared, Underway
  <2>4. place'[b].tree => place[b].tree
    <3>1. ASSUME NEW a \in Accounts, Halts(a) PROVE place'[b] = place[b]
      BY <3>1 DEF Halts, Alone
    <3>2. ASSUME NEW a \in Accounts, Touches(a) PROVE place'[b] = place[b]
      BY <2>3, <3>2 DEF Touches
    <3>3. ASSUME NEW a \in Accounts, NEW cmd \in {"clone", "adopt"}, Begins(a, cmd)
          PROVE  place'[b] = place[b]
      BY <3>3 DEF Begins
    <3>4. ASSUME NEW a \in Accounts, NEW s, Works(a, s)
          PROVE  place'[b].tree => place[b].tree
      BY <3>4 DEF Works, Advances, Alone, Alters
    <3> QED
      BY <3>1, <3>2, <3>3, <3>4, Moves DEF Always
  <2> QED
    BY <2>3, <2>4
<1> QED
  BY <1>1, InitAlways, AlwaysStays, PTL DEF Spec, BuiltInClearedTree

-----------------------------------------------------------------------------
(* One command at a time                                                   *)

One == \A a, b \in Accounts : run[a].cmd # "none" /\ run[b].cmd # "none" => a = b

\* The newest entry of the stash is the one the command made, until it drops it.
Own == \A a \in Accounts :
    run[a].made =>
        /\ run[a].cmd = "adopt" /\ driver # "mvx" /\ run[a].at > 3
        /\ run[a].at <= BuildAt("adopt") + 1 => stash # <<>> /\ Head(stash).of = a

Serial == Always /\ One /\ Own

LEMMA OneStays ==
    ASSUME AtOnce = 1, Typed, Positions, One, [Next]_vars
    PROVE  One'
<1>1. ASSUME NEW a \in Accounts, Halts(a) PROVE One'
  BY <1>1 DEF Halts, Alone, One
<1>2. ASSUME NEW a \in Accounts, Touches(a) PROVE One'
  BY <1>2 DEF Touches, One
<1>3. ASSUME NEW a \in Accounts, NEW cmd \in {"clone", "adopt"}, Begins(a, cmd)
      PROVE  One'
  BY <1>3 DEF Begins, One
<1>4. ASSUME NEW a \in Accounts, NEW s, Works(a, s) PROVE One'
  BY <1>4 DEF Works, Advances, Alone, One
<1>5. CASE UNCHANGED vars
  BY <1>5 DEF vars, One
<1> QED
  BY <1>1, <1>2, <1>3, <1>4, <1>5, Moves

\* While one command works, no other is there.
LEMMA OnlyOne ==
    ASSUME Typed, Positions, One, NEW a \in Accounts, NEW s, Works(a, s),
           NEW b \in Accounts \ {a}
    PROVE  run[b].cmd = "none" /\ run'[b] = run[b] /\ place'[b] = place[b]
BY AtStep DEF Works, Advances, Alone, One

LEMMA OwnStays ==
    ASSUME Typed, Positions, One, Own, [Next]_vars
    PROVE  Own'
<1> DEFINE Mine(b) ==
      /\ run'[b].cmd = "adopt" /\ driver # "mvx" /\ run'[b].at > 3
      /\ run'[b].at <= BuildAt("adopt") + 1 => stash' # <<>> /\ Head(stash').of = b
<1>0. SUFFICES (\A b \in Accounts : run'[b].made => Mine(b)) /\ driver' = driver
  BY DEF Own, BuildAt
<1>1. ASSUME NEW a \in Accounts, Halts(a) \/ Touches(a)
      PROVE  (\A b \in Accounts : run'[b].made => Mine(b)) /\ driver' = driver
  BY <1>1 DEF Halts, Touches, Alone, Own
<1>2. ASSUME NEW a \in Accounts, NEW cmd \in {"clone", "adopt"}, Begins(a, cmd)
      PROVE  (\A b \in Accounts : run'[b].made => Mine(b)) /\ driver' = driver
  BY <1>2 DEF Begins, Own
<1>3. ASSUME NEW a \in Accounts, NEW s, Works(a, s)
      PROVE  (\A b \in Accounts : run'[b].made => Mine(b)) /\ driver' = driver
  <2>1. At(a, s) /\ Advances(a, s) /\ driver' = driver
    BY <1>3 DEF Works, Advances, Alone
  <2>2. /\ Fits(run[a].cmd, run[a].at, s) /\ run[a].at \in Nat
        /\ BuildAt(run[a].cmd) \in Nat
    BY <2>1, AtPlace
  <2>3. \A b \in Accounts \ {a} : ~run'[b].made
    BY <1>3, OnlyOne DEF Own
  <2>4. ASSUME run'[a].made PROVE Mine(a)
    <3>1. run'[a].cmd = run[a].cmd /\ run'[a].at = run[a].at + 1
      BY <2>1 DEF Advances
    <3>2. CASE s = "stash"
      <4>1. Stash(a)
        BY <1>3, <3>2 DEF Works
      <4>2. stash' # <<>> /\ Head(stash').of = a
        <5>1. Pushes(a)
          BY <4>1, <2>4, StashStep
        <5>2. [of |-> a, work |-> place[a].work].of = a
          OBVIOUS
        <5> QED
          BY <5>1, <5>2 DEF Pushes
      <4> QED
        BY <2>2, <3>1, <3>2, <4>2 DEF Fits
    <3>3. CASE s = "drop"
      <4>1. run[a].made
        BY <2>1, <2>4, <3>3 DEF Advances
      <4> QED
        BY <2>2, <3>1, <3>3, <4>1 DEF Fits, Own
    <3>4. CASE s # "stash" /\ s # "drop"
      <4>1. run[a].made /\ stash' = stash
        BY <2>1, <2>4, <3>4 DEF Advances
      <4>2. /\ run[a].cmd = "adopt" /\ driver # "mvx" /\ run[a].at > 3
            /\ run[a].at <= BuildAt("adopt") + 1 => stash # <<>> /\ Head(stash).of = a
        BY <4>1 DEF Own
      <4>3. BuildAt("adopt") \in Nat
        BY <2>2, <4>2
      <4> QED
        BY <2>2, <3>1, <4>1, <4>2, <4>3
    <3> QED
      BY <3>2, <3>3, <3>4
  <2> QED
    BY <2>1, <2>3, <2>4
<1>4. CASE UNCHANGED vars
  BY <1>4 DEF vars, system, Own
<1> QED
  BY <1>1, <1>2, <1>3, <1>4, Moves

LEMMA InitSerial == Init => Serial
<1> SUFFICES ASSUME Init PROVE Serial
  OBVIOUS
<1>1. \A a \in Accounts : run[a].cmd = "none" /\ run[a].made = FALSE
  BY DEF Init, Idle
<1> QED
  BY <1>1, InitAlways DEF Serial, One, Own

LEMMA SerialStays ==
    ASSUME AtOnce = 1, Serial, [Next]_vars
    PROVE  Serial'
BY AlwaysStays, OneStays, OwnStays DEF Serial, Always

-----------------------------------------------------------------------------
(* The form, from what was said to the records                             *)

\* The configuration is not set before there is one.
Unset == ~fetched => ~flag

\* A clone works where the configuration is found, and comes to its questions with
\* nothing set.
Rooted == \A a \in Accounts :
    run[a].cmd = "clone" => ~nested /\ (run[a].at = 2 => ~flag)

\* What was to be kept has been, from the step that keeps it on.
Kept == \A a \in Accounts :
    /\ run[a].cmd # "none" /\ run[a].agreed /\ ~nested
    /\ run[a].cmd = "adopt" => driver # "uv" /\ run[a].at > 2
    => flag

\* uv-git's clone has an answer for a commit in the open form.
Asked == \A a \in Accounts :
    driver = "uv" /\ run[a].cmd = "clone" /\ head = "open" /\ run[a].at > 7
        => run[a].open # "unsaid" /\ (run[a].agreed <=> run[a].open = "yes")

\* What the engine goes by says what was chosen, when the records are built by it.
Exported == \A a \in Accounts :
    /\ run[a].cmd # "none" /\ run[a].at = BuildAt(run[a].cmd)
    /\ run[a].cmd = "adopt" => driver \in {"udt", "jb"}
    /\ driver = "uv" => head = "open"
    => IF driver = "mvx" THEN IsOpen(a) <=> SaysOpen ELSE run[a].env <=> IsOpen(a)

Formed == Serial /\ Unset /\ Rooted /\ Kept /\ Asked /\ Exported

\* The choice is what it was while nothing it depends on changes.
LEMMA SameChoice ==
    ASSUME NEW a, run'[a].open = run[a].open, flag' = flag, nested' = nested
    PROVE  (SaysOpen' <=> SaysOpen) /\ (IsOpen(a)' <=> IsOpen(a))
BY DEF IsOpen, SaysOpen

\* Until there is a repository the one step is the fetch.
LEMMA FetchFirst ==
    ASSUME Always, ~fetched, NEW a \in Accounts, NEW s, Works(a, s)
    PROVE  s = "fetch"
BY AtPlace, AtStep DEF Works, Advances, Always, Unfetched, Fits

LEMMA UnsetStays ==
    ASSUME Always, Unset, [Next]_vars
    PROVE  Unset'
<1>1. ASSUME NEW a \in Accounts, Halts(a) \/ Touches(a) PROVE Unset'
  BY <1>1 DEF Halts, Touches, Unset
<1>2. ASSUME NEW a \in Accounts, NEW cmd \in {"clone", "adopt"}, Begins(a, cmd)
      PROVE  Unset'
  BY <1>2 DEF Begins, Unset
<1>3. ASSUME NEW a \in Accounts, NEW s, Works(a, s) PROVE Unset'
  <2>1. CASE ~fetched
    BY <1>3, <2>1, FetchFirst DEF Works, Advances, Unset
  <2>2. CASE fetched
    BY <1>3, <2>2 DEF Works, Advances, Unset
  <2> QED
    BY <2>1, <2>2
<1>4. CASE UNCHANGED vars
  BY <1>4 DEF vars, Unset
<1> QED
  BY <1>1, <1>2, <1>3, <1>4, Moves DEF Always

LEMMA RootedStays ==
    ASSUME Always, One, Unset, Rooted, [Next]_vars
    PROVE  Rooted'
<1>1. ASSUME NEW a \in Accounts, Halts(a) PROVE Rooted'
  BY <1>1 DEF Halts, Alone, Rooted
<1>2. ASSUME NEW a \in Accounts, Touches(a) PROVE Rooted'
  BY <1>2 DEF Touches, Rooted
<1>3. ASSUME NEW a \in Accounts, NEW cmd \in {"clone", "adopt"}, Begins(a, cmd)
      PROVE  Rooted'
  BY <1>3 DEF Begins, Rooted
<1>4. ASSUME NEW a \in Accounts, NEW s, Works(a, s) PROVE Rooted'
  <2>1. At(a, s) /\ Advances(a, s) /\ nested' = nested
    BY <1>4 DEF Works, Advances, Alone
  <2>2. Fits(run[a].cmd, run[a].at, s) /\ run[a].at \in Nat
    BY <2>1, AtPlace DEF Always
  <2>3. \A b \in Accounts \ {a} : run'[b].cmd = "none"
    BY <1>4, OnlyOne DEF Always
  <2>4. ASSUME run'[a].cmd = "clone" PROVE ~nested /\ (run'[a].at = 2 => ~flag')
    <3>1. run[a].cmd = "clone" /\ run'[a].at = run[a].at + 1
      BY <2>1, <2>4 DEF Advances
    <3>2. ASSUME run'[a].at = 2 PROVE ~flag'
      <4>1. s = "fetch"
        BY <2>2, <3>1, <3>2 DEF Fits
      <4> QED
        BY <2>1, <4>1 DEF Advances, Chooses, Unset
    <3> QED
      BY <3>1, <3>2 DEF Rooted
  <2> QED
    BY <2>1, <2>3, <2>4 DEF Rooted
<1>5. CASE UNCHANGED vars
  BY <1>5 DEF vars, system, Rooted
<1> QED
  BY <1>1, <1>2, <1>3, <1>4, <1>5, Moves DEF Always

LEMMA KeptStays ==
    ASSUME Always, Kept, [Next]_vars
    PROVE  Kept'
<1>1. ASSUME NEW a \in Accounts, Halts(a) PROVE Kept'
  BY <1>1 DEF Halts, Alone, Kept
<1>2. ASSUME NEW a \in Accounts, Touches(a) PROVE Kept'
  BY <1>2 DEF Touches, Kept
<1>3. ASSUME NEW a \in Accounts, NEW cmd \in {"clone", "adopt"}, Begins(a, cmd)
      PROVE  Kept'
  BY <1>3 DEF Begins, Kept
<1>4. ASSUME NEW a \in Accounts, NEW s, Works(a, s) PROVE Kept'
  <2>1. /\ At(a, s) /\ Advances(a, s) /\ nested' = nested /\ driver' = driver
        /\ run'[a].cmd = run[a].cmd /\ run'[a].at = run[a].at + 1
        /\ Chooses(a, s, run[a], run'[a])
        /\ \A b \in Accounts \ {a} : run'[b] = run[b]
    BY <1>4 DEF Works, Advances, Alone
  <2>2. Fits(run[a].cmd, run[a].at, s) /\ run[a].at \in Nat /\ run[a].cmd # "none"
    BY <2>1, AtPlace, AtStep DEF Always
  <2>3. flag => flag'
    BY <2>1 DEF Chooses
  <2>4. ASSUME run'[a].agreed, ~nested,
               run[a].cmd = "adopt" => driver # "uv" /\ run[a].at + 1 > 2
        PROVE  flag'
    <3>1. CASE s = "question"
      BY <2>2, <2>4, <3>1 DEF Fits
    <3>2. CASE s = "ask"
      BY <2>1, <2>4, <3>2 DEF Chooses
    <3>3. CASE s = "persist"
      BY <2>1, <2>4, <3>3 DEF Chooses
    <3>4. CASE s \notin {"question", "ask", "persist"}
      <4>1. run[a].agreed
        BY <2>1, <2>4, <3>4 DEF Chooses
      <4>2. run[a].cmd = "adopt" => driver # "uv" /\ run[a].at > 2
        BY <2>2, <2>4, <3>4 DEF Fits
      <4> QED
        BY <2>2, <2>3, <2>4, <4>1, <4>2 DEF Kept
    <3> QED
      BY <3>1, <3>2, <3>3, <3>4
  <2>5. ASSUME NEW b \in Accounts \ {a}, run[b].cmd # "none", run[b].agreed, ~nested,
               run[b].cmd = "adopt" => driver # "uv" /\ run[b].at > 2
        PROVE  flag'
    BY <2>3, <2>5 DEF Kept
  <2> QED
    BY <2>1, <2>4, <2>5 DEF Kept
<1>5. CASE UNCHANGED vars
  BY <1>5 DEF vars, system, Kept
<1> QED
  BY <1>1, <1>2, <1>3, <1>4, <1>5, Moves DEF Always

LEMMA AskedStays ==
    ASSUME Always, Asked, [Next]_vars
    PROVE  Asked'
<1>1. ASSUME NEW a \in Accounts, Halts(a) PROVE Asked'
  BY <1>1 DEF Halts, Alone, Asked
<1>2. ASSUME NEW a \in Accounts, Touches(a) PROVE Asked'
  BY <1>2 DEF Touches, Asked
<1>3. ASSUME NEW a \in Accounts, NEW cmd \in {"clone", "adopt"}, Begins(a, cmd)
      PROVE  Asked'
  BY <1>3 DEF Begins, Asked
<1>4. ASSUME NEW a \in Accounts, NEW s, Works(a, s) PROVE Asked'
  <2>1. /\ At(a, s) /\ Advances(a, s) /\ head' = head /\ driver' = driver
        /\ run'[a].cmd = run[a].cmd /\ run'[a].at = run[a].at + 1
        /\ Chooses(a, s, run[a], run'[a])
        /\ \A b \in Accounts \ {a} : run'[b] = run[b]
    BY <1>4 DEF Works, Advances, Alone
  <2>2. Fits(run[a].cmd, run[a].at, s) /\ run[a].at \in Nat
    BY <2>1, AtPlace DEF Always
  <2>3. ASSUME driver = "uv", run[a].cmd = "clone", head = "open", run[a].at + 1 > 7
        PROVE  run'[a].open # "unsaid" /\ (run'[a].agreed <=> run'[a].open = "yes")
    <3>1. s # "question"
      BY <2>2, <2>3 DEF Fits
    <3>2. CASE s = "ask"
      BY <2>1, <2>3, <3>2 DEF Chooses
    <3>3. CASE s # "ask"
      <4>1. run[a].at > 7
        BY <2>2, <2>3, <3>3 DEF Fits
      <4>2. run'[a].open = run[a].open /\ run'[a].agreed = run[a].agreed
        BY <2>1, <3>1, <3>3 DEF Chooses
      <4> QED
        BY <2>3, <4>1, <4>2 DEF Asked
    <3> QED
      BY <3>2, <3>3
  <2> QED
    BY <2>1, <2>3 DEF Asked
<1>5. CASE UNCHANGED vars
  BY <1>5 DEF vars, system, Asked
<1> QED
  BY <1>1, <1>2, <1>3, <1>4, <1>5, Moves DEF Always

\* A command that comes to its build has exported the choice; mvx-git's clone has set it
\* where there was none.
LEMMA ExportsChoice ==
    ASSUME Formed, NEW a \in Accounts, NEW s, Works(a, s),
           run[a].at + 1 = BuildAt(run[a].cmd),
           run[a].cmd = "adopt" => driver \in {"udt", "jb"}, driver = "uv" => head = "open"
    PROVE  IF driver = "mvx" THEN IsOpen(a)' <=> SaysOpen' ELSE run'[a].env <=> IsOpen(a)'
<1>1. /\ At(a, s) /\ Advances(a, s) /\ nested' = nested
      /\ Chooses(a, s, run[a], run'[a])
  BY DEF Works, Advances, Alone
<1>2. /\ Fits(run[a].cmd, run[a].at, s) /\ run[a].at \in Nat
      /\ run[a].cmd \in {"clone", "adopt"} /\ BuildAt(run[a].cmd) \in Nat
  BY <1>1, AtPlace DEF Formed, Serial, Always
<1>3. CASE driver = "mvx"
  <2>1. run[a].cmd = "clone" /\ run[a].at = 2
    BY <1>2, <1>3 DEF BuildAt
  <2>2. s = "ask"
    BY <1>2, <1>3, <2>1 DEF Fits
  <2>3. ~nested /\ ~flag
    BY <2>1 DEF Formed, Rooted
  <2>4. flag' <=> run'[a].open = "yes"
    BY <1>1, <1>3, <2>2, <2>3 DEF Chooses
  <2> QED
    BY <1>1, <1>3, <2>3, <2>4 DEF IsOpen, SaysOpen
<1>4. CASE driver # "mvx"
  <2>1. s = "export"
    BY <1>2, <1>4 DEF Fits
  <2>2. run'[a].open = run[a].open /\ flag' = flag
    BY <1>1, <2>1 DEF Chooses
  <2>3. IsOpen(a)' <=> IsOpen(a)
    BY <1>1, <2>2, SameChoice
  <2>4. CASE driver = "uv"
    <3>1. run[a].cmd = "clone" /\ head = "open" /\ run[a].at > 7
      BY <1>2, <2>4 DEF BuildAt
    <3>2. run[a].open # "unsaid" /\ (run[a].agreed <=> run[a].open = "yes")
      BY <2>4, <3>1 DEF Formed, Asked
    <3>3. run[a].agreed <=> IsOpen(a)
      BY <3>2 DEF IsOpen
    <3>4. run'[a].env = run[a].agreed
      BY <1>1, <2>1, <2>4 DEF Chooses
    <3> QED
      BY <1>4, <2>3, <3>3, <3>4
  <2>5. CASE driver # "uv"
    <3>1. run'[a].env = IsOpen(a)
      BY <1>1, <2>1, <2>5 DEF Chooses
    <3> QED
      BY <1>4, <2>3, <3>1
  <2> QED
    BY <2>4, <2>5
<1> QED
  BY <1>3, <1>4

LEMMA ExportedStays ==
    ASSUME Formed, [Next]_vars
    PROVE  Exported'
<1> DEFINE Building(b) ==
      /\ run'[b].cmd # "none" /\ run'[b].at = BuildAt(run'[b].cmd)
      /\ run'[b].cmd = "adopt" => driver \in {"udt", "jb"}
      /\ driver = "uv" => head = "open"
    Chosen(b) ==
      IF driver = "mvx" THEN IsOpen(b)' <=> SaysOpen' ELSE run'[b].env <=> IsOpen(b)'
<1>0. SUFFICES /\ \A b \in Accounts : Building(b) => Chosen(b)
               /\ driver' = driver /\ head' = head
  BY DEF Exported, BuildAt
<1>1. ASSUME NEW b \in Accounts, Building(b), run'[b] = run[b], flag' = flag,
             nested' = nested
      PROVE  Chosen(b)
  <2>1. (SaysOpen' <=> SaysOpen) /\ (IsOpen(b)' <=> IsOpen(b))
    BY <1>1, SameChoice
  <2> QED
    BY <1>1, <2>1 DEF Formed, Exported
<1>2. ASSUME NEW a \in Accounts, Halts(a) \/ Touches(a)
      PROVE  /\ \A b \in Accounts : Building(b) => Chosen(b)
             /\ driver' = driver /\ head' = head
  <2>1. driver' = driver /\ head' = head /\ flag' = flag /\ nested' = nested
    BY <1>2 DEF Halts, Touches, Alone
  <2>2. ASSUME NEW b \in Accounts, Building(b) PROVE run'[b] = run[b]
    BY <1>2, <2>2 DEF Halts, Touches, Alone
  <2> HIDE DEF Building, Chosen
  <2> QED
    BY <1>1, <2>1, <2>2
<1>3. ASSUME NEW a \in Accounts, NEW cmd \in {"clone", "adopt"}, Begins(a, cmd)
      PROVE  /\ \A b \in Accounts : Building(b) => Chosen(b)
             /\ driver' = driver /\ head' = head
  <2>1. driver' = driver /\ head' = head /\ flag' = flag /\ nested' = nested
    BY <1>3 DEF Begins
  <2>2. driver \in {"uv", "udt", "jb", "mvx"}
    BY ConstantsAssumption DEF Formed, Serial, Always, Typed
  <2>3. ~Building(a)
    BY <1>3, <2>2 DEF Begins, BuildAt
  <2>4. \A b \in Accounts \ {a} : run'[b] = run[b]
    BY <1>3 DEF Begins
  <2> HIDE DEF Building, Chosen
  <2> QED
    BY <1>1, <2>1, <2>3, <2>4
<1>4. ASSUME NEW a \in Accounts, NEW s, Works(a, s)
      PROVE  /\ \A b \in Accounts : Building(b) => Chosen(b)
             /\ driver' = driver /\ head' = head
  <2>1. /\ driver' = driver /\ head' = head
        /\ run'[a].cmd = run[a].cmd /\ run'[a].at = run[a].at + 1
    BY <1>4 DEF Works, Advances, Alone
  <2>2. \A b \in Accounts \ {a} : ~Building(b)
    BY <1>4, OnlyOne DEF Formed, Serial, Always
  <2>3. Building(a) => Chosen(a)
    BY <1>4, <2>1, ExportsChoice
  <2> HIDE DEF Building, Chosen
  <2> QED
    BY <2>1, <2>2, <2>3
<1>5. CASE UNCHANGED vars
  <2>1. /\ driver' = driver /\ head' = head /\ flag' = flag /\ nested' = nested
        /\ run' = run
    BY <1>5 DEF vars, system
  <2> HIDE DEF Building, Chosen
  <2> QED
    BY <1>1, <2>1
<1> QED
  BY <1>2, <1>3, <1>4, <1>5, Moves DEF Formed, Serial, Always

LEMMA InitFormed == Init => Formed
<1> SUFFICES ASSUME Init PROVE Formed
  OBVIOUS
<1>1. \A a \in Accounts : run[a].cmd = "none"
  BY DEF Init, Idle
<1>2. Unset
  BY DEF Init, Unset
<1> QED
  BY <1>1, <1>2, InitSerial DEF Formed, Rooted, Kept, Asked, Exported

LEMMA FormedStays ==
    ASSUME AtOnce = 1, Formed, [Next]_vars
    PROVE  Formed'
<1>1. Always /\ One
  BY DEF Formed, Serial
<1> QED
  BY <1>1, SerialStays, UnsetStays, RootedStays, KeptStays, AskedStays, ExportedStays
     DEF Formed

\* With one command at a time, records are built in the form that was chosen - on the
\* command line, by the answer to the question, else by the configuration the account
\* finds - and an answer that was to be kept has been (mvconn_open_account,
\* mvconn_persist_open_account, mv_git_materialize), but for the adopts of uv-git and
\* mvx-git: what the command exports is its choice, and nobody changes what it was
\* taken from until the records are built.
THEOREM FormFollows ==
    ASSUME AtOnce = 1
    PROVE  Spec => FormIsChosen
<1>1. Formed /\ [Next]_vars =>
         [\A a \in Accounts :
             /\ place'[a].recs # place[a].recs /\ place'[a].recs # {}
             /\ run[a].cmd = "adopt" => driver \in {"udt", "jb"}
             /\ driver = "uv" => head = "open"
             => /\ place'[a].form = IF IsOpen(a) THEN "open" ELSE "native"
                /\ run[a].agreed /\ ~nested => flag]_vars
  <2> SUFFICES ASSUME Formed, [Next]_vars, NEW b \in Accounts,
                      place'[b].recs # place[b].recs, place'[b].recs # {},
                      run[b].cmd = "adopt" => driver \in {"udt", "jb"},
                      driver = "uv" => head = "open"
               PROVE  /\ place'[b].form = IF IsOpen(b) THEN "open" ELSE "native"
                      /\ run[b].agreed /\ ~nested => flag
    OBVIOUS
  <2>1. ~ UNCHANGED vars
    BY DEF vars
  <2>2. \A a \in Accounts : ~Halts(a) /\ ~Touches(a)
    BY DEF Halts, Touches, Alone
  <2>3. \A a \in Accounts, cmd \in {"clone", "adopt"} : ~Begins(a, cmd)
    BY DEF Begins
  <2>4. PICK a \in Accounts : \E s : Works(a, s)
    BY <2>1, <2>2, <2>3, Moves DEF Formed, Serial, Always
  <2>5. PICK s : Works(a, s)
    BY <2>4
  <2>6. a = b /\ At(b, s)
    BY <2>5 DEF Works, Advances, Alone
  <2>7. s \in Fills
    BY <2>5, <2>6 DEF Works, Advances, Alters
  <2>8. /\ Filled(b, s) /\ Fits(run[b].cmd, run[b].at, s) /\ run[b].cmd # "none"
        /\ run[b].cmd \in {"clone", "adopt"}
    BY <2>5, <2>6, <2>7, AtPlace, AtStep DEF Works, Formed, Serial, Always
  <2>9. run[b].at = BuildAt(run[b].cmd) /\ (s = "build" <=> driver # "mvx")
    BY <2>7, <2>8 DEF Fits, Fills, BuildAt
  <2>10. IF driver = "mvx" THEN IsOpen(b) <=> SaysOpen ELSE run[b].env <=> IsOpen(b)
    BY <2>8, <2>9 DEF Formed, Exported
  <2>11. place'[b].form = IF IsOpen(b) THEN "open" ELSE "native"
    <3>1. CASE s = "build"
      BY <2>8, <2>9, <2>10, <3>1 DEF Filled, FormOf
    <3>2. CASE s \in {"materialise", "import"}
      BY <2>8, <2>9, <2>10, <3>2 DEF Filled, FormOf
    <3> QED
      BY <2>7, <3>1, <3>2 DEF Fills
  <2>12. run[b].agreed /\ ~nested => flag
    <3>1. run[b].cmd = "adopt" => driver # "uv" /\ run[b].at > 2
      BY <2>9 DEF BuildAt
    <3> QED
      BY <2>8, <3>1 DEF Formed, Kept
  <2> QED
    BY <2>11, <2>12
<1> QED
  BY <1>1, InitFormed, FormedStays, PTL DEF Spec, FormIsChosen

-----------------------------------------------------------------------------
(* What holds of an account that was not live before its command, and whose  *)
(* records were written                                                    *)

\* An account something was left out of stays one.
LEMMA ExemptGrows ==
    ASSUME Typed, Positions, [Next]_vars
    PROVE  Exempt \subseteq Exempt'
<1>1. ASSUME NEW a \in Accounts, Halts(a) \/ Touches(a) PROVE Exempt \subseteq Exempt'
  BY <1>1 DEF Halts, Touches, Alone, Exempt
<1>2. ASSUME NEW a \in Accounts, NEW cmd \in {"clone", "adopt"}, Begins(a, cmd)
      PROVE  Exempt \subseteq Exempt'
  BY <1>2 DEF Begins, Exempt
<1>3. ASSUME NEW a \in Accounts, NEW s, Works(a, s) PROVE Exempt \subseteq Exempt'
  BY <1>3 DEF Works, Advances, Alone, Exempt
<1>4. CASE UNCHANGED vars
  BY <1>4 DEF vars, Exempt
<1> QED
  BY <1>1, <1>2, <1>3, <1>4, Moves

\* No account has records that its command is still to build.
Unbuilt == \A a \in Accounts \ Exempt :
    Underway(a) /\ run[a].at <= BuildAt(run[a].cmd) => place[a].recs = {}

\* A descriptor beside records says the account is live, or nobody would take it for one.
Described == \A a \in Accounts \ Exempt :
    place[a].desc /\ place[a].recs # {} => place[a].live

\* It is not taken for one that was live.
Fresh == \A a \in Accounts \ Exempt : Underway(a) => ~run[a].already

\* Its own files are kept out from "exclude" on.
Excluded == \A a \in Accounts \ Exempt :
    /\ driver = "uv" /\ Underway(a)
    /\ run[a].at > IF run[a].cmd = "adopt" THEN 6 ELSE 4
    => place[a].excluded

\* A command that is running has not said how it ended.
Silent == \A a \in Accounts : run[a].cmd # "none" => run[a].told = "nothing"

Making == Unbuilt /\ Described /\ Fresh /\ Excluded /\ Silent

\* The parts of it at account b after a step.
Made(b) ==
    /\ Underway(b)' /\ run'[b].at <= BuildAt(run'[b].cmd) => place'[b].recs = {}
    /\ place'[b].desc /\ place'[b].recs # {} => place'[b].live
    /\ Underway(b)' => ~run'[b].already
    /\ /\ driver = "uv" /\ Underway(b)'
       /\ run'[b].at > IF run'[b].cmd = "adopt" THEN 6 ELSE 4
       => place'[b].excluded

LEMMA MakingByAccount ==
    ASSUME driver' = driver, \A b \in Accounts \ Exempt' : Made(b), Silent'
    PROVE  Making'
BY DEF Making, Made, Unbuilt, Described, Fresh, Excluded, BuildAt, Underway

\* What Making says of an account nothing was done to.
LEMMA MakingKept ==
    ASSUME Making, NEW b \in Accounts \ Exempt,
           run'[b] = run[b] \/ run'[b].cmd = "none",
           place'[b] = place[b]
    PROVE  Made(b)
BY DEF Making, Made, Unbuilt, Described, Fresh, Excluded, Underway

LEMMA MakingAtWork ==
    ASSUME Always, Making, NEW a \in Accounts \ Exempt, NEW s, Works(a, s),
           a \notin short'
    PROVE  Made(a)
<1>1. At(a, s) /\ Advances(a, s)
  BY DEF Works, Advances
<1>2. /\ Fits(run[a].cmd, run[a].at, s) /\ run[a].at \in Nat /\ run[a].at > 0
      /\ BuildAt(run[a].cmd) \in Nat /\ run[a].cmd \in {"clone", "adopt"}
  BY <1>1, AtPlace DEF Always
<1>3. /\ run'[a].cmd = run[a].cmd /\ run'[a].at = run[a].at + 1
      /\ run'[a].already = run[a].already
      /\ Alters(s, run[a].already, place[a], place'[a])
  BY <1>1 DEF Advances
<1>4. driver \in {"uv", "udt", "jb", "mvx"}
  BY ConstantsAssumption DEF Always, Typed
<1>5. CASE ~Underway(a)
  <2>1. s = "fetch"
    BY <1>2, <1>5 DEF Underway, Fits
  <2>2. ~place[a].desc /\ place[a].recs = {} /\ ~run[a].already /\ run[a].at = 1
        /\ run[a].cmd = "clone"
    BY <1>1, <1>2, <2>1 DEF Advances, Always, Unfetched, Fits
  <2> QED
    BY <1>3, <2>1, <2>2 DEF Made, Alters, Fills
<1>6. CASE Underway(a)
  <2>1. ~run[a].already
    BY <1>6 DEF Making, Fresh
  <2>2. run[a].at + 1 <= BuildAt(run[a].cmd) => place'[a].recs = {}
    <3>1. SUFFICES ASSUME run[a].at + 1 <= BuildAt(run[a].cmd) PROVE place'[a].recs = {}
      OBVIOUS
    <3>2. place[a].recs = {}
      BY <1>2, <1>6, <3>1 DEF Making, Unbuilt
    <3>3. s \notin Fills
      BY <1>2, <1>4, <3>1 DEF Fits, Fills, BuildAt
    <3> QED
      BY <1>3, <3>2, <3>3 DEF Alters
  <2>3. ASSUME place'[a].desc, place'[a].recs # {} PROVE place'[a].live
    <3>1. s # "clear"
      BY <1>3, <2>3 DEF Alters
    <3>2. CASE s \in Fills
      <4>1. driver # "jb" => place'[a].live
        BY <3>2 DEF Works, Filled
      <4>2. ASSUME driver = "jb" PROVE ~place'[a].desc
        <5>1. s \notin {"describe", "materialise"}
          BY <1>2, <4>2 DEF Fits
        <5>2. s = "build"
          BY <3>2, <1>2, <4>2 DEF Fits, Fills
        <5>3. run[a].at > 4
          BY <1>2, <4>2, <5>2 DEF Fits, BuildAt
        <5>4. ~place[a].desc
          BY <1>6, <4>2, <5>3 DEF Always, Cleared
        <5> QED
          BY <1>3, <5>1, <5>4 DEF Alters
      <4> QED
        BY <2>3, <4>1, <4>2
    <3>3. CASE s \notin Fills
      <4>1. place'[a].recs = place[a].recs /\ (place[a].live => place'[a].live)
        BY <1>3, <3>1, <3>3 DEF Alters
      <4>2. place[a].desc \/ s = "describe"
        BY <1>3, <2>3, <3>3 DEF Alters, Fills
      <4>3. s # "describe"
        BY <1>2, <1>6, <2>3, <4>1 DEF Fits, Making, Unbuilt
      <4> QED
        BY <2>3, <4>1, <4>2, <4>3 DEF Making, Described
    <3> QED
      BY <3>2, <3>3
  <2>4. ASSUME driver = "uv", run[a].at + 1 > IF run[a].cmd = "adopt" THEN 6 ELSE 4
        PROVE  place'[a].excluded
    <3>1. CASE s = "exclude"
      BY <1>3, <2>1, <3>1 DEF Alters
    <3>2. CASE s # "exclude"
      <4>1. run[a].at > IF run[a].cmd = "adopt" THEN 6 ELSE 4
        BY <1>2, <2>4, <3>2 DEF Fits
      <4>2. place[a].excluded
        BY <1>6, <2>4, <4>1 DEF Making, Excluded
      <4> QED
        BY <1>3, <4>2 DEF Alters
    <3> QED
      BY <3>1, <3>2
  <2> QED
    BY <1>3, <2>1, <2>2, <2>3, <2>4 DEF Made
<1> QED
  BY <1>5, <1>6

LEMMA MakingStays == Always /\ Making /\ [Next]_vars => Making'
<1> SUFFICES ASSUME Always, Making, [Next]_vars PROVE Making'
  OBVIOUS
<1>0. Exempt \subseteq Exempt'
  BY ExemptGrows DEF Always
<1>1. ASSUME NEW a \in Accounts, Halts(a) PROVE Making'
  <2>1. Silent' /\ driver' = driver
    BY <1>1 DEF Halts, Alone, Making, Silent
  <2>2. \A b \in Accounts : (run'[b] = run[b] \/ run'[b].cmd = "none") /\ place'[b] = place[b]
    BY <1>1 DEF Halts, Alone
  <2> QED
    BY <1>0, <2>1, <2>2, MakingKept, MakingByAccount
<1>2. ASSUME NEW a \in Accounts, Touches(a) PROVE Making'
  <2>1. Silent' /\ driver' = driver /\ run' = run
    BY <1>2 DEF Touches, Making, Silent
  <2>2. ASSUME a \notin Exempt PROVE Made(a)
    BY <1>2, <2>1, <2>2 DEF Touches, Made, Underway, Making, Described
  <2>3. \A b \in Accounts \ {a} : place'[b] = place[b]
    BY <1>2 DEF Touches
  <2> QED
    BY <1>0, <2>1, <2>2, <2>3, MakingKept, MakingByAccount
<1>3. ASSUME NEW a \in Accounts, NEW cmd \in {"clone", "adopt"}, Begins(a, cmd)
      PROVE  Making'
  <2>1. Silent' /\ driver' = driver
    BY <1>3 DEF Begins, Making, Silent
  <2>2. ASSUME a \notin Exempt' PROVE Made(a)
    <3>1. a \notin Exempt
      BY <1>0, <2>2
    <3>2. cmd = "adopt" => place[a].recs = {} /\ ~place[a].live
      BY <1>3, <2>2, <3>1 DEF Begins, Making, Described, Exempt
    <3> QED
      BY <1>3, <3>1, <3>2 DEF Begins, Made, Underway, Making, Described
  <2>3. \A b \in Accounts \ {a} : place'[b] = place[b] /\ run'[b] = run[b]
    BY <1>3 DEF Begins
  <2> QED
    BY <1>0, <2>1, <2>2, <2>3, MakingKept, MakingByAccount
<1>4. ASSUME NEW a \in Accounts, NEW s, Works(a, s) PROVE Making'
  <2>1. Silent'
    BY <1>4, AtStep DEF Works, Advances, Alone, Making, Silent, Always
  <2>2. driver' = driver
    BY <1>4 DEF Works, Advances, Alone
  <2>4. ASSUME a \notin Exempt' PROVE Made(a)
    <3>1. a \notin Exempt /\ a \notin short'
      BY <1>0, <2>4 DEF Exempt
    <3> QED
      BY <1>4, <3>1, MakingAtWork
  <2>3. \A b \in Accounts \ {a} : place'[b] = place[b] /\ run'[b] = run[b]
    BY <1>4 DEF Works, Advances, Alone
  <2> QED
    BY <1>0, <2>1, <2>2, <2>3, <2>4, MakingKept, MakingByAccount
<1>5. CASE UNCHANGED vars
  <2>1. Silent' /\ driver' = driver
    BY <1>5 DEF vars, system, Making, Silent
  <2>2. \A b \in Accounts : run'[b] = run[b] /\ place'[b] = place[b]
    BY <1>5 DEF vars
  <2> QED
    BY <1>0, <2>1, <2>2, MakingKept, MakingByAccount
<1> QED
  BY <1>1, <1>2, <1>3, <1>4, <1>5, Moves DEF Always

LEMMA InitMaking == Init => Making
<1> SUFFICES ASSUME Init PROVE Making
  OBVIOUS
<1>1. \A a \in Accounts : run[a].cmd = "none" /\ place[a].recs = {}
  BY DEF Init, Idle, Bare
<1> QED
  BY <1>1 DEF Making, Unbuilt, Described, Fresh, Excluded, Silent, Underway

-----------------------------------------------------------------------------
(* What a command that says it made the account has made                   *)

\* Past the build there is an account with the records of the commit.
Built == \A a \in Accounts \ Exempt :
    run[a].cmd # "none" /\ run[a].at > BuildAt(run[a].cmd)
        => "head" \in place[a].recs /\ (place[a].live \/ driver = "jb")

BuiltAt(b) ==
    run'[b].cmd # "none" /\ run'[b].at > BuildAt(run'[b].cmd)
        => "head" \in place'[b].recs /\ (place'[b].live \/ driver = "jb")

LEMMA BuiltByAccount ==
    ASSUME driver' = driver, \A b \in Accounts \ Exempt' : BuiltAt(b)
    PROVE  Built'
BY DEF Built, BuiltAt, BuildAt

LEMMA BuiltKept ==
    ASSUME Built, NEW b \in Accounts \ Exempt,
           run'[b] = run[b] \/ run'[b].cmd = "none", place'[b] = place[b]
    PROVE  BuiltAt(b)
BY DEF Built, BuiltAt

\* Whatever tree is built from, the records of the commit are in it.
LEMMA HeadInSource ==
    ASSUME Typed, Own, NEW a \in Accounts, run[a].at <= BuildAt("adopt") + 1
    PROVE  "head" \in Source(a)
BY DEF Own, Source, InTree

LEMMA BuiltAtWork ==
    ASSUME Serial, Built, NEW a \in Accounts \ Exempt, NEW s, Works(a, s),
           a \notin short'
    PROVE  BuiltAt(a)
<1>1. At(a, s) /\ Advances(a, s)
  BY DEF Works, Advances
<1>2. /\ Fits(run[a].cmd, run[a].at, s) /\ run[a].at \in Nat
      /\ BuildAt(run[a].cmd) \in Nat /\ run[a].cmd \in {"clone", "adopt"}
  BY <1>1, AtPlace DEF Serial, Always
<1>3. /\ run'[a].cmd = run[a].cmd /\ run'[a].at = run[a].at + 1
      /\ Alters(s, run[a].already, place[a], place'[a])
  BY <1>1 DEF Advances
<1>4. driver \in {"uv", "udt", "jb", "mvx"}
  BY ConstantsAssumption DEF Serial, Always, Typed
<1>5. CASE s \in Fills
  <2>1. Filled(a, s)
    BY <1>5 DEF Works
  <2>2. s = "build" => "head" \in Source(a)
    <3>1. SUFFICES ASSUME s = "build" PROVE "head" \in Source(a)
      OBVIOUS
    <3>2. run[a].at <= BuildAt("adopt") + 1
      BY <1>2, <1>4, <3>1 DEF Fits, BuildAt
    <3> QED
      BY <3>2, HeadInSource DEF Serial, Always
  <2>3. "head" \in place'[a].recs
    BY <1>5, <2>1, <2>2 DEF Filled, Fills
  <2>4. place'[a].live \/ driver = "jb"
    BY <2>1 DEF Filled
  <2> QED
    BY <2>3, <2>4 DEF BuiltAt
<1>6. CASE s \notin Fills
  <2>1. SUFFICES ASSUME run[a].at + 1 > BuildAt(run[a].cmd)
                 PROVE  "head" \in place'[a].recs /\ (place'[a].live \/ driver = "jb")
    BY <1>3 DEF BuiltAt
  <2>2. run[a].at # BuildAt(run[a].cmd)
    BY <1>2, <1>4, <1>6 DEF Fits, Fills, BuildAt
  <2>3. run[a].at > BuildAt(run[a].cmd)
    BY <1>2, <2>1, <2>2
  <2>4. s # "clear"
    BY <1>2, <1>4, <2>3 DEF Fits, BuildAt
  <2>5. "head" \in place[a].recs /\ (place[a].live \/ driver = "jb")
    BY <1>2, <2>3 DEF Built
  <2> QED
    BY <1>3, <1>6, <2>4, <2>5 DEF Alters
<1> QED
  BY <1>5, <1>6

LEMMA BuiltStays == Serial /\ Built /\ [Next]_vars => Built'
<1> SUFFICES ASSUME Serial, Built, [Next]_vars PROVE Built'
  OBVIOUS
<1>0. Exempt \subseteq Exempt'
  BY ExemptGrows DEF Serial, Always
<1>1. ASSUME NEW a \in Accounts, Halts(a) PROVE Built'
  <2>1. driver' = driver
    BY <1>1 DEF Halts, Alone
  <2>2. \A b \in Accounts : (run'[b] = run[b] \/ run'[b].cmd = "none") /\ place'[b] = place[b]
    BY <1>1 DEF Halts, Alone
  <2> QED
    BY <1>0, <2>1, <2>2, BuiltKept, BuiltByAccount
<1>2. ASSUME NEW a \in Accounts, Touches(a) PROVE Built'
  BY <1>0, <1>2, BuiltByAccount DEF Touches, BuiltAt, Built
<1>3. ASSUME NEW a \in Accounts, NEW cmd \in {"clone", "adopt"}, Begins(a, cmd)
      PROVE  Built'
  <2>1. BuildAt(cmd) >= 1 /\ BuildAt(cmd) \in Nat
    BY ConstantsAssumption DEF BuildAt, Serial, Always, Typed
  <2>2. driver' = driver /\ BuiltAt(a)
    BY <1>3, <2>1 DEF Begins, BuiltAt
  <2>3. \A b \in Accounts \ {a} : run'[b] = run[b] /\ place'[b] = place[b]
    BY <1>3 DEF Begins
  <2> QED
    BY <1>0, <2>2, <2>3, BuiltKept, BuiltByAccount
<1>4. ASSUME NEW a \in Accounts, NEW s, Works(a, s) PROVE Built'
  <2>1. driver' = driver
    BY <1>4 DEF Works, Advances, Alone
  <2>2. \A b \in Accounts \ {a} : place'[b] = place[b] /\ run'[b] = run[b]
    BY <1>4 DEF Works, Advances, Alone
  <2>3. ASSUME a \notin Exempt' PROVE BuiltAt(a)
    <3>1. a \notin Exempt /\ a \notin short'
      BY <1>0, <2>3 DEF Exempt
    <3> QED
      BY <1>4, <3>1, BuiltAtWork
  <2> QED
    BY <1>0, <2>1, <2>2, <2>3, BuiltKept, BuiltByAccount
<1>5. CASE UNCHANGED vars
  BY <1>0, <1>5 DEF vars, system, Built, BuildAt
<1> QED
  BY <1>1, <1>2, <1>3, <1>4, <1>5, Moves DEF Serial, Always

Truthful == Serial /\ Making /\ Built /\ SuccessIsTrue

LEMMA SuccessStays ==
    Serial /\ Making /\ Built /\ SuccessIsTrue /\ [Next]_vars => SuccessIsTrue'
<1> SUFFICES ASSUME Serial, Making, Built, SuccessIsTrue, [Next]_vars,
                    NEW b \in Accounts \ Exempt', run'[b].told = "success"
             PROVE  /\ "head" \in place'[b].recs /\ (place'[b].live \/ driver' = "jb")
                    /\ driver' = "uv" => place'[b].excluded
  BY DEF SuccessIsTrue, Exempt
<1>0. b \notin Exempt
  BY ExemptGrows DEF Serial, Always
<1>1. ASSUME run[b].told = "success", driver' = driver,
             place'[b].recs = place[b].recs, place'[b].live = place[b].live,
             place'[b].excluded = place[b].excluded
      PROVE  /\ "head" \in place'[b].recs /\ (place'[b].live \/ driver' = "jb")
             /\ driver' = "uv" => place'[b].excluded
  BY <1>0, <1>1 DEF SuccessIsTrue, Exempt
<1>2. ASSUME NEW a \in Accounts, Halts(a)
      PROVE  /\ "head" \in place'[b].recs /\ (place'[b].live \/ driver' = "jb")
             /\ driver' = "uv" => place'[b].excluded
  <2>1. driver' = driver /\ place'[b] = place[b]
    BY <1>2 DEF Halts, Alone
  <2>2. CASE a # b
    BY <1>1, <1>2, <2>1, <2>2 DEF Halts, Alone
  <2>3. CASE a = b
    <3>1. At(b, "done")
      BY <1>2, <2>3 DEF Halts
    <3>2. /\ Fits(run[b].cmd, run[b].at, "done") /\ run[b].cmd \in {"clone", "adopt"}
          /\ run[b].at \in Nat /\ BuildAt(run[b].cmd) \in Nat
      BY <3>1, AtPlace DEF Serial, Always
    <3>3. run[b].at > BuildAt(run[b].cmd)
      BY <3>2 DEF Fits, DoneAt
    <3>4. "head" \in place[b].recs /\ (place[b].live \/ driver = "jb")
      BY <1>0, <3>2, <3>3 DEF Built
    <3>5. ASSUME driver = "uv" PROVE place[b].excluded
      <4>1. run[b].at > 9 /\ Underway(b)
        BY <3>2, <3>3, <3>5 DEF BuildAt, Underway
      <4> QED
        BY <1>0, <3>2, <3>5, <4>1 DEF Making, Excluded
    <3> QED
      BY <2>1, <3>4, <3>5
  <2> QED
    BY <2>2, <2>3
<1>3. ASSUME NEW a \in Accounts, Touches(a)
      PROVE  /\ "head" \in place'[b].recs /\ (place'[b].live \/ driver' = "jb")
             /\ driver' = "uv" => place'[b].excluded
  BY <1>1, <1>3 DEF Touches
<1>4. ASSUME NEW a \in Accounts, NEW cmd \in {"clone", "adopt"}, Begins(a, cmd)
      PROVE  /\ "head" \in place'[b].recs /\ (place'[b].live \/ driver' = "jb")
             /\ driver' = "uv" => place'[b].excluded
  <2>1. b # a
    BY <1>4 DEF Begins
  <2> QED
    BY <1>1, <1>4, <2>1 DEF Begins
<1>5. ASSUME NEW a \in Accounts, NEW s, Works(a, s)
      PROVE  /\ "head" \in place'[b].recs /\ (place'[b].live \/ driver' = "jb")
             /\ driver' = "uv" => place'[b].excluded
  <2>1. b # a
    BY <1>5, AtStep DEF Works, Advances, Making, Silent, Serial, Always
  <2> QED
    BY <1>1, <1>5, <2>1 DEF Works, Advances, Alone
<1>6. CASE UNCHANGED vars
  BY <1>1, <1>6 DEF vars, system
<1> QED
  BY <1>2, <1>3, <1>4, <1>5, <1>6, Moves DEF Serial, Always

LEMMA InitTruthful == Init => Truthful
<1> SUFFICES ASSUME Init PROVE Truthful
  OBVIOUS
<1>1. \A a \in Accounts : run[a].cmd = "none" /\ run[a].told = "nothing"
  BY DEF Init, Idle
<1> QED
  BY <1>1, InitSerial, InitMaking DEF Truthful, Built, SuccessIsTrue

\* With one command at a time, a command that says it made the account has made it, with
\* the records of the commit, live, and on UniVerse with its own files out of git
\* (provision, clone_cmd, adopt), whichever of the driver's own steps fail and wherever
\* one is killed, if the engine wrote all it was told to: what it says about that the
\* driver does not know.
THEOREM SuccessTold ==
    ASSUME AtOnce = 1
    PROVE  Spec => []SuccessIsTrue
<1>1. Truthful /\ [Next]_vars => Truthful'
  BY SerialStays, MakingStays, BuiltStays, SuccessStays DEF Truthful, Serial
<1>2. Truthful => SuccessIsTrue
  BY DEF Truthful
<1> QED
  BY <1>1, <1>2, InitTruthful, PTL DEF Spec

-----------------------------------------------------------------------------
(* What the user changed is kept                                           *)

\* The checkout of an adopt past "stash" has no edits.
Emptied == \A a \in Accounts :
    run[a].cmd = "adopt" /\ driver # "mvx" /\ run[a].at > 3 => place[a].work = {}

\* An entry about to be dropped is in the records.
Taken == \A a \in Accounts \ short :
    run[a].made /\ run[a].at = BuildAt("adopt") + 1 /\ "edit" \in Head(stash).work
        => "edit" \in place[a].recs

LEMMA EmptiedStays ==
    ASSUME "stash" \notin Faults, Always, Emptied, [Next]_vars
    PROVE  Emptied'
<1>1. ASSUME NEW a \in Accounts, Halts(a) PROVE Emptied'
  BY <1>1 DEF Halts, Alone, Emptied
<1>2. ASSUME NEW a \in Accounts, Touches(a) PROVE Emptied'
  BY <1>2 DEF Touches, Emptied
<1>3. ASSUME NEW a \in Accounts, NEW cmd \in {"clone", "adopt"}, Begins(a, cmd)
      PROVE  Emptied'
  BY <1>3 DEF Begins, Emptied
<1>4. ASSUME NEW a \in Accounts, NEW s, Works(a, s) PROVE Emptied'
  <2>1. At(a, s) /\ Advances(a, s)
    BY <1>4 DEF Works, Advances
  <2>2. Fits(run[a].cmd, run[a].at, s) /\ run[a].at \in Nat
    BY <2>1, AtPlace DEF Always
  <2>3. ASSUME run[a].cmd = "adopt", driver # "mvx", run[a].at + 1 > 3
        PROVE  place'[a].work = {}
    <3>1. CASE s = "stash"
      BY <2>1, <3>1 DEF Advances, Alters
    <3>2. CASE s # "stash"
      <4>1. run[a].at > 3
        BY <2>2, <2>3, <3>2 DEF Fits
      <4>2. place[a].work = {}
        BY <2>3, <4>1 DEF Emptied
      <4> QED
        BY <2>1, <4>2 DEF Advances, Alters
    <3> QED
      BY <3>1, <3>2
  <2> QED
    BY <2>1, <2>3 DEF Advances, Alone, Emptied
<1>5. CASE UNCHANGED vars
  BY <1>5 DEF vars, system, Emptied
<1> QED
  BY <1>1, <1>2, <1>3, <1>4, <1>5, Moves DEF Always

\* The tree of an entry of account a holds the edit the entry has.
LEMMA EditInSource ==
    ASSUME NEW a \in Accounts, run[a].made, stash # <<>>, Head(stash).of = a,
           "edit" \in Head(stash).work
    PROVE  "edit" \in Source(a)
BY DEF Source, InTree

LEMMA TakenStays ==
    ASSUME Serial, Taken, [Next]_vars
    PROVE  Taken'
<1> DEFINE Dropping(b) == run'[b].made /\ run'[b].at = BuildAt("adopt") + 1
<1>0. SUFFICES /\ driver' = driver
               /\ \A b \in Accounts \ short' : Dropping(b) /\ "edit" \in Head(stash').work
                                          => "edit" \in place'[b].recs
  BY DEF Taken, BuildAt
<1>1. ASSUME NEW a \in Accounts, Halts(a)
      PROVE  /\ driver' = driver
             /\ \A b \in Accounts \ short' : Dropping(b) /\ "edit" \in Head(stash').work
                                        => "edit" \in place'[b].recs
  BY <1>1 DEF Halts, Alone, Taken
<1>2. ASSUME NEW a \in Accounts, Touches(a)
      PROVE  /\ driver' = driver
             /\ \A b \in Accounts \ short' : Dropping(b) /\ "edit" \in Head(stash').work
                                        => "edit" \in place'[b].recs
  BY <1>2 DEF Touches, Taken
<1>3. ASSUME NEW a \in Accounts, NEW cmd \in {"clone", "adopt"}, Begins(a, cmd)
      PROVE  /\ driver' = driver
             /\ \A b \in Accounts \ short' : Dropping(b) /\ "edit" \in Head(stash').work
                                        => "edit" \in place'[b].recs
  BY <1>3 DEF Begins, Taken
<1>4. ASSUME NEW a \in Accounts, NEW s, Works(a, s)
      PROVE  /\ driver' = driver
             /\ \A b \in Accounts \ short' : Dropping(b) /\ "edit" \in Head(stash').work
                                        => "edit" \in place'[b].recs
  <2>1. At(a, s) /\ Advances(a, s) /\ driver' = driver
    BY <1>4 DEF Works, Advances, Alone
  <2>2. Fits(run[a].cmd, run[a].at, s) /\ run[a].at \in Nat
    BY <2>1, AtPlace DEF Serial, Always
  <2>3. \A b \in Accounts \ {a} : ~Dropping(b)
    BY <1>4, OnlyOne DEF Serial, Always, Own
  <2>4. ASSUME Dropping(a), "edit" \in Head(stash').work, a \notin short'
        PROVE  "edit" \in place'[a].recs
    <3>1. BuildAt("adopt") \in Nat /\ BuildAt("adopt") > 2
          /\ (driver # "mvx" => BuildAt("adopt") > 6)
      BY ConstantsAssumption DEF BuildAt, Serial, Always, Typed
    <3>2. run[a].at = BuildAt("adopt")
      BY <2>1, <2>2, <2>4, <3>1 DEF Advances
    <3>3. s # "stash"
      BY <2>2, <3>1, <3>2 DEF Fits
    <3>4. run[a].made
      BY <2>1, <2>4, <3>3 DEF Advances
    <3>5. /\ run[a].cmd = "adopt" /\ driver # "mvx" /\ stash # <<>> /\ Head(stash).of = a
      BY <3>1, <3>2, <3>4 DEF Serial, Own
    <3>6. s = "build" /\ s # "drop"
      BY <2>2, <3>2, <3>5 DEF Fits
    <3>7. stash' = stash /\ place'[a].recs = Source(a)
      BY <1>4, <2>1, <2>4, <3>6 DEF Works, Advances, Filled, Fills
    <3> QED
      BY <2>4, <3>4, <3>5, <3>7, EditInSource
  <2> QED
    BY <2>1, <2>3, <2>4
<1>5. CASE UNCHANGED vars
  BY <1>5 DEF vars, system, Taken
<1> QED
  BY <1>1, <1>2, <1>3, <1>4, <1>5, Moves DEF Serial, Always

LEMMA EditStashed ==
    ASSUME Typed, NEW a \in Accounts
    PROVE  "edit" \in Stashed(a) <=>
              \E k \in 1..Len(stash) : stash[k].of = a /\ "edit" \in stash[k].work
BY DEF Typed, Stashed

LEMMA EditStashedNext ==
    ASSUME Typed', NEW a \in Accounts
    PROVE  "edit" \in Stashed(a)' <=>
              \E k \in 1..Len(stash') : stash'[k].of = a /\ "edit" \in stash'[k].work
BY DEF Typed, Stashed

\* Where an edit is after the stash step: a push leaves every entry where it can be
\* found and puts the edit into one of its own.
LEMMA PushKeeps ==
    ASSUME Typed, Typed', NEW a \in Accounts, NEW b \in Accounts, Pushes(a)
    PROVE  /\ "edit" \in Stashed(b) => "edit" \in Stashed(b)'
           /\ "edit" \in place[a].work => "edit" \in Stashed(a)'
<1>1. stash \in Seq(Entries) /\ stash' \in Seq(Entries)
  BY DEF Typed
<1>2. ASSUME "edit" \in Stashed(b) PROVE "edit" \in Stashed(b)'
  <2>1. PICK k \in 1..Len(stash) : stash[k].of = b /\ "edit" \in stash[k].work
    BY <1>2, EditStashed
  <2>2. k + 1 \in 1..Len(stash') /\ stash'[k + 1] = stash[k]
    BY <1>1 DEF Pushes
  <2> QED
    BY <2>1, <2>2, EditStashedNext
<1>3. ASSUME "edit" \in place[a].work PROVE "edit" \in Stashed(a)'
  <2>1. 1 \in 1..Len(stash') /\ Head(stash') = stash'[1]
    BY <1>1 DEF Pushes
  <2>2. PICK e : e = [of |-> a, work |-> place[a].work]
    OBVIOUS
  <2>3. e.of = a /\ e.work = place[a].work
    BY <2>2
  <2>4. stash'[1] = e
    BY <2>1, <2>2 DEF Pushes
  <2> QED
    BY <1>3, <2>1, <2>3, <2>4, EditStashedNext
<1> QED
  BY <1>2, <1>3

\* A drop takes the newest entry and no other.
LEMMA DropKeeps ==
    ASSUME Typed, Typed', NEW a \in Accounts, NEW b \in Accounts, Drop(a),
           "edit" \in Stashed(b)
    PROVE  \/ "edit" \in Stashed(b)'
           \/ run[a].made /\ Head(stash).of = b /\ "edit" \in Head(stash).work
<1>1. stash \in Seq(Entries)
  BY DEF Typed
<1>2. CASE stash' = stash
  BY <1>2, EditStashed, EditStashedNext
<1>3. CASE run[a].made /\ stash # <<>> /\ stash' = Tail(stash)
  <2>1. PICK k \in 1..Len(stash) : stash[k].of = b /\ "edit" \in stash[k].work
    BY EditStashed
  <2>2. CASE k = 1
    <3>1. Head(stash) = stash[1]
      BY <1>1, <1>3
    <3> QED
      BY <1>3, <2>1, <2>2, <3>1
  <2>3. CASE k > 1
    <3>1. k - 1 \in 1..Len(stash') /\ stash'[k - 1] = stash[k]
      BY <1>1, <1>3, <2>3
    <3> QED
      BY <2>1, <3>1, EditStashedNext
  <2> QED
    BY <2>2, <2>3
<1> QED
  BY <1>2, <1>3 DEF Drop

Keeping == Serial /\ Making /\ Emptied /\ Taken /\ EditsKept

\* A step of a command moves an edit and loses none.
LEMMA WorkKeeps ==
    ASSUME "stash" \notin Faults, Keeping, Typed', NEW a \in Accounts, NEW s, Works(a, s),
           NEW b \in Accounts \ Exempt, "edit" \in Somewhere(b)
    PROVE  "edit" \in Somewhere(b)'
<1>1. At(a, s) /\ Advances(a, s)
  BY DEF Works, Advances
<1>2. Typed /\ Positions
  BY DEF Keeping, Serial, Always
<1>3. /\ Fits(run[a].cmd, run[a].at, s) /\ run[a].at \in Nat /\ run[a].at > 0
      /\ BuildAt(run[a].cmd) \in Nat /\ run[a].cmd \in {"clone", "adopt"}
  BY <1>1, <1>2, AtPlace
<1>4. driver \in {"uv", "udt", "jb", "mvx"}
  BY <1>2, ConstantsAssumption DEF Typed
<1>5. /\ b # a => place'[b] = place[b]
      /\ Alters(s, run[a].already, place[a], place'[a])
  BY <1>1 DEF Advances, Alone
<1>6. stash' = stash => ("edit" \in Stashed(b) <=> "edit" \in Stashed(b)')
  BY <1>2, EditStashed, EditStashedNext
<1>7. CASE s = "stash"
  <2>1. Stash(a)
    BY <1>7 DEF Works
  <2>2. CASE Pushes(a)
    <3>1. /\ "edit" \in Stashed(b) => "edit" \in Stashed(b)'
          /\ "edit" \in place[a].work => "edit" \in Stashed(a)'
      BY <1>2, <2>2, PushKeeps
    <3>2. place'[a].recs = place[a].recs
      BY <1>5, <1>7 DEF Alters, Fills
    <3> QED
      BY <1>5, <3>1, <3>2 DEF Somewhere
  <2>3. CASE stash' = stash /\ place'[a] = place[a]
    BY <1>5, <1>6, <2>3 DEF Somewhere
  <2> QED
    BY <1>2, <2>1, <2>2, <2>3, StashStep
<1>8. CASE s = "drop"
  <2>1. Drop(a)
    BY <1>8 DEF Works
  <2>2. place'[a] = place[a]
    BY <1>2, <2>1, DropStep
  <2>3. SUFFICES ASSUME run[a].made, Head(stash).of = b, "edit" \in Head(stash).work
                 PROVE  "edit" \in place[b].recs
    BY <1>2, <1>5, <2>1, <2>2, DropKeeps DEF Somewhere
  <2>4. run[a].at = BuildAt("adopt") + 1
    BY <1>3, <1>8 DEF Fits
  <2>5. Head(stash).of = a
    BY <1>3, <1>8, <2>3, <2>4 DEF Keeping, Serial, Own
  <2> QED
    BY <2>3, <2>4, <2>5 DEF Keeping, Taken, Exempt
<1>9. CASE s # "stash" /\ s # "drop"
  <2>1. stash' = stash
    BY <1>1, <1>9 DEF Advances
  <2>2. CASE b # a
    BY <1>5, <1>6, <2>1, <2>2 DEF Somewhere
  <2>3. CASE b = a /\ s = "clear"
    <3>1. run[a].cmd = "adopt" /\ driver # "mvx" /\ run[a].at = 4
      BY <1>3, <2>3 DEF Fits
    <3>2. place[a].work = {}
      BY <3>1 DEF Keeping, Emptied
    <3>3. run[a].at <= BuildAt(run[a].cmd)
      BY <1>4, <3>1 DEF BuildAt
    <3>4. place[a].recs = {}
      BY <2>3, <3>1, <3>3 DEF Keeping, Making, Unbuilt, Underway
    <3> QED
      BY <1>6, <2>1, <2>3, <3>2, <3>4 DEF Somewhere
  <2>4. CASE b = a /\ s \in Fills
    <3>1. run[a].at = BuildAt(run[a].cmd) /\ Underway(a)
      BY <1>3, <1>4, <2>4 DEF Fits, Fills, BuildAt, Underway
    <3>2. place[a].recs = {}
      BY <1>3, <2>4, <3>1 DEF Keeping, Making, Unbuilt
    <3>3. place'[a].work = place[a].work
      BY <1>5, <1>9, <2>4 DEF Alters, Fills
    <3> QED
      BY <1>6, <2>1, <2>4, <3>2, <3>3 DEF Somewhere
  <2>5. CASE b = a /\ s \notin Fills \cup {"clear"}
    <3>1. place'[a].recs = place[a].recs /\ place'[a].work = place[a].work
      BY <1>5, <1>9, <2>5 DEF Alters
    <3> QED
      BY <1>6, <2>1, <2>5, <3>1 DEF Somewhere
  <2> QED
    BY <2>2, <2>3, <2>4, <2>5
<1> QED
  BY <1>7, <1>8, <1>9

LEMMA EditsStay ==
    ASSUME "stash" \notin Faults, Keeping, Typed', [Next]_vars
    PROVE  EditsKept'
<1>1. Typed /\ Positions
  BY DEF Keeping, Serial, Always
<1>2. SUFFICES ASSUME NEW b \in Accounts \ Exempt', "edit" \in did'[b]
               PROVE  "edit" \in Somewhere(b)'
  BY DEF EditsKept, Exempt
<1>3. b \notin Exempt
  BY <1>1, ExemptGrows
<1>4. stash' = stash => ("edit" \in Stashed(b) <=> "edit" \in Stashed(b)')
  BY <1>1, EditStashed, EditStashedNext
<1>5. "edit" \in did[b] => "edit" \in Somewhere(b)
  BY <1>3 DEF Keeping, EditsKept, Exempt
<1>6. ASSUME NEW a \in Accounts, Halts(a) PROVE "edit" \in Somewhere(b)'
  <2>1. /\ stash' = stash /\ place'[b] = place[b] /\ did' = did
    BY <1>6 DEF Halts, Alone
  <2> QED
    BY <1>2, <1>4, <1>5, <2>1 DEF Somewhere
<1>7. ASSUME NEW a \in Accounts, Touches(a) PROVE "edit" \in Somewhere(b)'
  BY <1>2, <1>4, <1>5, <1>7 DEF Touches, Somewhere
<1>8. ASSUME NEW a \in Accounts, NEW cmd \in {"clone", "adopt"}, Begins(a, cmd)
      PROVE  "edit" \in Somewhere(b)'
  <2>1. /\ stash' = stash /\ place'[b] = place[b] /\ did' = did
    BY <1>8 DEF Begins
  <2> QED
    BY <1>2, <1>4, <1>5, <2>1 DEF Somewhere
<1>9. ASSUME NEW a \in Accounts, NEW s, Works(a, s) PROVE "edit" \in Somewhere(b)'
  <2>1. did' = did
    BY <1>9 DEF Works, Advances, Alone
  <2> QED
    BY <1>2, <1>5, <1>9, <1>3, <2>1, WorkKeeps
<1>10. CASE UNCHANGED vars
  <2>1. /\ stash' = stash /\ place'[b] = place[b] /\ did' = did
    BY <1>10 DEF vars
  <2> QED
    BY <1>2, <1>4, <1>5, <2>1 DEF Somewhere
<1> QED
  BY <1>1, <1>6, <1>7, <1>8, <1>9, <1>10, Moves

LEMMA InitKeeping == Init => Keeping
<1> SUFFICES ASSUME Init PROVE Keeping
  OBVIOUS
<1>1. \A a \in Accounts : run[a].cmd = "none" /\ run[a].made = FALSE /\ did[a] = {}
  BY DEF Init, Idle
<1> QED
  BY <1>1, InitSerial, InitMaking DEF Keeping, Emptied, Taken, EditsKept

\* With one command at a time and a stash that works, an edit of the user's is in the
\* checkout, in the stash or in the account, unless the engine wrote less than its tree
\* holds, whichever other steps fail and wherever a command is killed (mv_git_worktree_stash, mv_git_worktree_clear): it is cleared away
\* only when it is in an entry, and the entry dropped only when it is in the records.
THEOREM EditsAreKept ==
    ASSUME AtOnce = 1, "stash" \notin Faults
    PROVE  Spec => []EditsKept
<1>1. Keeping /\ [Next]_vars => Keeping'
  <2> SUFFICES ASSUME Keeping, [Next]_vars PROVE Keeping'
    OBVIOUS
  <2>1. Serial' /\ Making' /\ Taken'
    BY SerialStays, MakingStays, TakenStays DEF Keeping, Serial
  <2>2. Emptied'
    BY EmptiedStays DEF Keeping, Serial
  <2>3. EditsKept'
    BY <2>1, EditsStay DEF Serial, Always
  <2> QED
    BY <2>1, <2>2, <2>3 DEF Keeping
<1>2. Keeping => EditsKept
  BY DEF Keeping
<1> QED
  BY <1>1, <1>2, InitKeeping, PTL DEF Spec

=============================================================================
