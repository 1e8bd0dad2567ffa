----------------------------- MODULE SkillRead -----------------------------
(***************************************************************************)
(* One read of a skill, src/skills/store.ts (readSkill): the main file is  *)
(* loaded, cut into its ## sections and compared with the catalog; a whole *)
(* read ends there, a section read loads the companion files it asks for,  *)
(* all at once and each on its own deadline, and then answers with every   *)
(* section it was asked for or with one error.                             *)
(*                                                                         *)
(* What a load returns is the text of its pin: that is what PinnedReads    *)
(* promises, so that texts need no representation here and a piece of the  *)
(* answer is named by where it comes from.  A heading is known by its slug *)
(* (slugify drops case, markup and punctuation) and by whether its text is *)
(* spelled as the slug itself; a slug is a word and the numbers appended   *)
(* to it.  Time is counted in units; only loads take time.                 *)
(***************************************************************************)
EXTENDS Naturals, Sequences, FiniteSets, SequencesExt

CONSTANTS
  Headings,      \* heading texts: records of a slug and whether they spell it
  Files,         \* keys of companion files, file:<path>
  Main,          \* the SKILL.md file of the skill
  MaxHeadings,   \* bound: sections of a body
  MaxWants,      \* bound: sections of a request
  MaxDrift,      \* bound: keys the catalog lacks
  ReadDeadline   \* SKILL_READ_DEADLINE_MS, in units

ASSUME ReadAssumption ==
  /\ Main \notin Files
  /\ Headings \cap Files = {}
  /\ \A h \in Headings : h.slug \in Seq(ToSet(h.slug))
  /\ MaxHeadings \in Nat /\ MaxWants \in Nat
  /\ ReadDeadline \in Nat

VARIABLES
  body,      \* the ## sections of the pinned main file: heading and slug
  catalog,   \* the keys (slugs, companion files) with a section entry
  request,   \* what the script asks for
  stage,     \* "start", waiting for the "main" file or for "files", or "done"
  load,      \* where the load of each file is
  due,       \* when the deadline of each load fires
  now,       \* units since the read began
  answer     \* what readSkill returns

vars == <<body, catalog, request, stage, load, due, now, answer>>
input == <<body, catalog, request>>

Loads == Files \cup {Main}
Wants == Headings \cup Files

\* An id or options that are refused at once; a section both in the id and in
\* the options, or options that are no array, which are refused after the main
\* load; a whole read; the sections named in the id or the options.
Requests ==
  [kind : {"invalid", "conflict", "whole"}]
    \cup [kind : {"sections"}, wants : BoundedSeq(Wants, MaxWants) \ {<<>>}]

NoAnswer == [kind |-> "none"]
Refused == [kind |-> "refused"]
LoadError(f) == [kind |-> "load", of |-> f]

-----------------------------------------------------------------------------

\* Mutant: a slug that is taken is numbered once, whoever has the number.
FreshSlugOnce(slug, used) == IF slug \in used THEN Append(slug, 2) ELSE slug

\* The slug itself or, when an earlier section has it, the first free number.
FreshSlug(slug, used) ==
  IF slug \notin used THEN slug
  ELSE Append(slug,
         CHOOSE n \in 2..(Cardinality(used) + 2) :
           /\ Append(slug, n) \notin used
           /\ \A m \in 2..(n - 1) : Append(slug, m) \in used)

\* sectionize: the headings of a body in order, each with its slug.
Sectionize(headings) ==
  LET slug[i \in 1..Len(headings)] ==
        FreshSlug(headings[i].slug, {slug[j] : j \in 1..(i - 1)})
  IN [i \in 1..Len(headings) |-> [heading |-> headings[i], slug |-> slug[i]]]

Slugs == {body[i].slug : i \in DOMAIN body}

\* availableSections.
Available == (Slugs \cap catalog) \cup (catalog \cap Files)

Init ==
  /\ \E headings \in BoundedSeq(Headings, MaxHeadings) : body = Sectionize(headings)
  /\ \E missing \in SUBSET (Slugs \cup Files) :
       /\ Cardinality(missing) <= MaxDrift
       /\ catalog = (Slugs \cup Files) \ missing
  /\ request \in Requests
  /\ stage = "start"
  /\ load = [f \in Loads |-> "idle"]
  /\ due = [f \in Loads |-> 0]
  /\ now = 0
  /\ answer = NoAnswer

Return(a) == stage' = "done" /\ answer' = a

-----------------------------------------------------------------------------
(* The synchronous parts: resolving a want, and what is made of it.        *)

\* The sections a heading want may mean: by slug first, by heading text else.
BySlug(want) == {i \in DOMAIN body : body[i].slug = want.slug}
ByHeading(want) == {i \in DOMAIN body : body[i].heading = want}
Meant(want) == IF BySlug(want) # {} THEN BySlug(want) ELSE ByHeading(want)
First(S) == CHOOSE i \in S : \A j \in S : i <= j

Servable(want) ==
  \/ want \in Files
  \/ Meant(want) # {} /\ body[First(Meant(want))].slug \in catalog

Piece(want) == [section |-> want,
                from |-> IF want \in Files THEN want ELSE First(Meant(want))]

\* The loop over the request, once every companion file is there.
Assembled ==
  IF \A i \in DOMAIN request.wants : Servable(request.wants[i])
  THEN [kind |-> "sections",
        found |-> [i \in DOMAIN request.wants |-> Piece(request.wants[i])],
        keys |-> Available]
  ELSE Refused

\* Mutant: a whole read does not look at the catalog.
WholeUnchecked == [kind |-> "whole", keys |-> Available]

\* A whole read, unless a section of the body has no catalog entry.
Whole ==
  IF Slugs \subseteq catalog THEN [kind |-> "whole", keys |-> Available] ELSE Refused

\* Mutant: files that failed are left out of the answer.
CollectedLeniently(l) == Assembled

\* After Promise.all: the first file in request order that failed, or the loop.
Collected(l) ==
  LET failed == {i \in DOMAIN request.wants :
                   request.wants[i] \in Files /\ l[request.wants[i]] = "failed"}
  IN IF failed # {} THEN LoadError(request.wants[First(failed)]) ELSE Assembled

Wanted == {f \in Files : \E i \in DOMAIN request.wants : request.wants[i] = f}

-----------------------------------------------------------------------------
(* The read.                                                               *)

\* withDeadline around source(pin), for each file of F.
Start(F, l) ==
  /\ load' = [f \in Loads |-> IF f \in F THEN "flying" ELSE l[f]]
  /\ due' = [f \in Loads |-> IF f \in F THEN now + ReadDeadline ELSE due[f]]

\* Options, name, catalog entry and pin are checked before anything is loaded.
Begin ==
  /\ stage = "start"
  /\ IF request.kind = "invalid"
     THEN Return(Refused) /\ UNCHANGED <<load, due>>
     ELSE stage' = "main" /\ Start({Main}, load) /\ UNCHANGED answer
  /\ UNCHANGED <<input, now>>

Flying(f) == load[f] = "flying"

\* The main file is there: everything up to the answer, or to the companions.
MainLoaded ==
  /\ stage = "main"
  /\ Flying(Main)
  /\ LET loaded == [load EXCEPT ![Main] = "text"] IN
     \/ /\ request.kind = "conflict"
        /\ Return(Refused)
        /\ load' = loaded /\ UNCHANGED due
     \/ /\ request.kind = "whole"
        /\ Return(Whole)
        /\ load' = loaded /\ UNCHANGED due
     \/ /\ request.kind = "sections"
        /\ Wanted = {} \/ ~ Wanted \subseteq catalog
        /\ Return(IF Wanted = {} THEN Assembled ELSE Refused)
        /\ load' = loaded /\ UNCHANGED due
     \/ /\ request.kind = "sections"
        /\ Wanted # {} /\ Wanted \subseteq catalog
        /\ stage' = "files" /\ Start(Wanted, loaded) /\ UNCHANGED answer
  /\ UNCHANGED <<input, now>>

\* The main file is rejected by the source, or its deadline fires.
MainFails ==
  /\ stage = "main"
  /\ Flying(Main)
  /\ load' = [load EXCEPT ![Main] = "failed"]
  /\ Return(LoadError(Main))
  /\ UNCHANGED <<input, due, now>>

\* Mutant: the first companion that settles ends the wait.
FileSettlesFirst(f, outcome) ==
  /\ stage = "files"
  /\ Flying(f)
  /\ load' = [load EXCEPT ![f] = outcome]
  /\ Return(Collected(load'))
  /\ UNCHANGED <<input, due, now>>

\* Mutant: a companion that failed is loaded once more, on a new deadline.
FileSettlesRetried(f, outcome) ==
  /\ stage = "files"
  /\ Flying(f)
  /\ IF outcome = "failed" THEN Start({f}, load) /\ UNCHANGED <<stage, answer>>
     ELSE /\ load' = [load EXCEPT ![f] = outcome]
          /\ UNCHANGED due
          /\ IF \E g \in Files \ {f} : Flying(g)
             THEN UNCHANGED <<stage, answer>> ELSE Return(Collected(load'))
  /\ UNCHANGED <<input, now>>

\* A companion settles; the last one lets the read go on.
FileSettles(f, outcome) ==
  /\ stage = "files"
  /\ Flying(f)
  /\ load' = [load EXCEPT ![f] = outcome]
  /\ IF \E g \in Files \ {f} : Flying(g)
     THEN UNCHANGED <<stage, answer>>
     ELSE Return(Collected(load'))
  /\ UNCHANGED <<input, due, now>>

\* The source answers, or throws, any time up to the deadline.
SourceAnswers ==
  \/ MainLoaded \/ MainFails
  \/ \E f \in Files, outcome \in {"text", "failed"} : FileSettles(f, outcome)

\* Mutant: only the load of the main file has a deadline.
DeadlineOnMain == stage = "main" /\ now >= due[Main] /\ MainFails

\* The timer of a load fires; the flight goes on without a reader.
Deadline ==
  \/ now >= due[Main] /\ MainFails
  \/ \E f \in Files : now >= due[f] /\ FileSettles(f, "failed")

\* Time passes while the read waits, and timers fire on time.
Tick ==
  /\ stage \in {"main", "files"}
  /\ \A f \in Loads : Flying(f) => now < due[f]
  /\ now' = now + 1
  /\ UNCHANGED <<input, stage, load, due, answer>>

Next == Begin \/ SourceAnswers \/ Deadline \/ Tick

Spec == Init /\ [][Next]_vars

\* The source may be silent for ever; the isolate and its clock are not.
FairSpec == Spec /\ WF_vars(Begin) /\ WF_vars(Deadline) /\ WF_vars(Tick)

-----------------------------------------------------------------------------

TypeOK ==
  /\ DOMAIN body \subseteq Nat
  /\ request \in Requests
  /\ stage \in {"start", "main", "files", "done"}
  /\ load \in [Loads -> {"idle", "flying", "text", "failed"}]
  /\ due \in [Loads -> Nat]
  /\ now \in Nat
  /\ answer.kind \in {"none", "refused", "load", "whole", "sections"}

\* Who is in flight at each stage, and until when.
Timing ==
  /\ stage = "start" => now = 0 /\ \A f \in Loads : load[f] = "idle"
  /\ stage = "done" => \A f \in Loads : ~ Flying(f)
  /\ stage = "main" => /\ \A f \in Files : load[f] = "idle"
                       /\ Flying(Main)
                       /\ due[Main] <= ReadDeadline
                       /\ now <= due[Main]
  /\ stage = "files" => /\ request.kind = "sections"
                        /\ load[Main] = "text"
                        /\ Wanted \subseteq catalog
                        /\ \E f \in Files : Flying(f)
                        /\ \A f \in Wanted : load[f] # "idle"
                        /\ \A f \in Files \ Wanted : load[f] = "idle"
                        /\ \A f \in Files : Flying(f) =>
                             /\ due[f] <= 2 * ReadDeadline
                             /\ now <= due[f]
  /\ stage # "done" => answer = NoAnswer

\* A read with any number of companion files takes the deadline of the main
\* file and one more at most: the companions are loaded at once, and one that
\* fails is not tried again (store.ts:226-236, 373-375).
WithinTwoDeadlines == now <= 2 * ReadDeadline

\* A section read is all or nothing.  Its answer has one piece for every section
\* it was asked for, in order, each companion from its own file and loaded in
\* time; when it fails for a load, the error names the first one in request
\* order that failed, whatever order they failed in (store.ts:373-417).
AllOrNothing ==
  /\ answer.kind = "sections" =>
       /\ DOMAIN answer.found = DOMAIN request.wants
       /\ \A i \in DOMAIN request.wants :
            LET want == request.wants[i] IN
            /\ answer.found[i].section = want
            /\ want \in Files => answer.found[i].from = want /\ load[want] = "text"
  /\ answer.kind = "load" =>
       /\ load[answer.of] = "failed"
       /\ answer.of = Main \/ \E i \in DOMAIN request.wants :
            /\ request.wants[i] = answer.of
            /\ \A j \in 1..(i - 1) :
                 request.wants[j] \in Files => load[request.wants[j]] = "text"

\* Nothing is served that the catalog does not list: neither a section of a
\* whole body, nor a section or companion by name, whichever way it was named
\* (store.ts:339-347, 366, 411-415).
FailClosed ==
  /\ answer.kind = "whole" => Slugs \subseteq catalog
  /\ answer.kind = "sections" =>
       \A i \in DOMAIN answer.found :
         LET piece == answer.found[i] IN
         IF piece.section \in Files THEN piece.from \in catalog
         ELSE piece.from \in DOMAIN body /\ body[piece.from].slug \in catalog

\* Every section of a body that is served whole can be read by its own key: no
\* two sections have one slug, however headings repeat or look like numbered
\* repetitions of others, and the keys of the answer have them all
\* (store.ts:155-181).
SectionsAddressable ==
  answer.kind = "whole" =>
    \A i \in DOMAIN body :
      /\ body[i].slug \in answer.keys
      /\ BySlug(body[i]) = {i}

\* Every read answers within its deadlines, although the source may not.
ReadAnswers == <>(stage = "done")

IInv == TypeOK /\ Timing /\ WithinTwoDeadlines /\ AllOrNothing /\ FailClosed

\* "Accept the slug (catalog id form) or exact heading text" (store.ts:392): a
\* want that is the text of a heading of the body, and no slug, is answered with
\* a section that has this heading.
ExactHeadingReads ==
  answer.kind = "sections" =>
    \A i \in DOMAIN answer.found :
      LET want == answer.found[i].section IN
      (want \notin Files /\ ~ want.plain /\ ByHeading(want) # {}) =>
        answer.found[i].from \in ByHeading(want)

=============================================================================
