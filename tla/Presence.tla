------------------------------ MODULE Presence ------------------------------
(***************************************************************************)
(* What Discord is told about a repository: the Session of BranchStats with *)
(* the language of the file an editor is in (Language), from the start of   *)
(* the program, which parses the table, to the paths that an editor sends   *)
(* and the looks of the loop or of a hook.                                  *)
(***************************************************************************)
EXTENDS BranchStats, Language

CONSTANTS
  Root,        \* the repository's directory
  Files,       \* paths inside of it
  Deletable,   \* files that may be deleted and made again
  Extension    \* Extension[p]: what path p, a directory too, has after its last dot

Paths == Files \cup {Root}

ASSUME PathsAssumption ==
  Root \notin Files /\ Deletable \subseteq Files /\ DOMAIN Extension = Paths

VARIABLES
  auto_update, \* the switch of the command line
  missing,     \* the files that are deleted
  tag,         \* the members of the Session that the language depends on
  taken        \* history: the paths sent, what happened since the last one

presenceVars == <<statsVars, lang, auto_update, missing, tag, taken>>

\* get_props of the extension of a path.
PropsOf(p) == get_props(Extension[p])

\* find_git from a path: there is a repository, and there is the path.
Found(p) == repo.exists /\ p \notin missing

PresenceInit ==
  /\ StatsInit /\ LanguageInit
  /\ auto_update \in BOOLEAN
  /\ missing = {}
  /\ tag = [cached |-> FALSE, dirty_path |-> Root, init_path |-> Root,
            language |-> NoLanguage]
  /\ taken = [path |-> Root, files |-> {}, opened |-> FALSE, lost |-> FALSE]

Parse ==
  /\ ParseEntry \/ ParseAborts
  /\ UNCHANGED <<statsVars, auto_update, missing, tag, taken>>

Take(p) ==
  taken' = [path |-> p, files |-> taken.files \cup ({p} \ {Root}),
            opened |-> ~tag.cached, lost |-> FALSE]

\* Session::Session: the walker that searched from the path makes the look.
Construct(p) ==
  /\ Parsed /\ ~tag.cached /\ Found(p) /\ LookBegin
  /\ tag' = [tag EXCEPT !.cached = TRUE, !.init_path = p]
  /\ Take(p)
  /\ UNCHANGED <<lang, auto_update, missing>>

\* Mutant: the path is kept only when no look will follow.
UpdatePathEither(p) ==
  IF auto_update THEN tag
  ELSE [tag EXCEPT !.dirty_path = p, !.language = PropsOf(p)]

\* Session::update_path.
UpdatePath(p) ==
  IF auto_update THEN [tag EXCEPT !.dirty_path = p]
  ELSE [tag EXCEPT !.dirty_path = p, !.language = PropsOf(p)]

\* Git::change_git, on a cached and valid session.
SetPath(p) ==
  /\ look.phase = "idle" /\ tag.cached /\ session.valid /\ Found(p)
  /\ tag' = UpdatePath(p)
  /\ Take(p)
  /\ UNCHANGED <<statsVars, lang, auto_update, missing>>

\* Session::update, by the loop or by a hook.
Update ==
  /\ tag.cached /\ Found(tag.dirty_path) /\ LookBegin
  /\ tag' = [tag EXCEPT !.init_path = tag.dirty_path, !.dirty_path = Root]
  /\ UNCHANGED <<lang, auto_update, missing, taken>>

\* zero_stats also forgets the language.
UpdateLost ==
  /\ tag.cached /\ ~Found(tag.dirty_path) /\ LookLost
  /\ tag' = [tag EXCEPT !.language = NoLanguage]
  /\ taken' = [taken EXCEPT !.lost = TRUE]
  /\ UNCHANGED <<lang, auto_update, missing>>

\* update_stats, the language: it stays when the walker started at the root.
Looked ==
  /\ LookEnd
  /\ tag' = [tag EXCEPT !.init_path = Root,
                        !.language = IF tag.init_path = Root THEN @
                                     ELSE PropsOf(tag.init_path)]
  /\ UNCHANGED <<lang, auto_update, missing, taken>>

Look == (LookOpen \/ CountHead) /\ UNCHANGED <<lang, auto_update, missing, tag, taken>>

User == Parsed /\ UserNext /\ UNCHANGED <<lang, auto_update, missing, tag, taken>>

\* The user deletes a file, or makes it again.
FileChanges(f) ==
  /\ Parsed
  /\ missing' = IF f \in missing THEN missing \ {f} ELSE missing \cup {f}
  /\ UNCHANGED <<statsVars, lang, auto_update, tag, taken>>

PresenceNext ==
  \/ Parse
  \/ \E p \in Paths : Construct(p) \/ SetPath(p)
  \/ Update
  \/ UpdateLost
  \/ Look
  \/ Looked
  \/ User
  \/ \E f \in Deletable : FileChanges(f)

PresenceSpec == PresenceInit /\ [][PresenceNext]_presenceVars

\* Discord::update and DiscordPresence: a session that is not valid is private.
Message ==
  IF ~session.valid
  THEN [details |-> "private", state |-> Say("nothing", 0, 0), small |-> NoLanguage]
  ELSE [details |-> "working", state |-> StateString(session), small |-> tag.language]

-----------------------------------------------------------------------------

PresenceTypeOK ==
  /\ StatsTypeOK
  /\ lang \in [next : 1..(Len(Table) + 1), aborted : BOOLEAN,
               added : SUBSET (Names \cup Groups),
               extension_map : [Extensions -> Names \cup {NoLanguage}]]
  /\ auto_update \in BOOLEAN /\ missing \subseteq Deletable
  /\ tag \in [cached : BOOLEAN, dirty_path : Paths, init_path : Paths,
              language : Names \cup {NoLanguage}]
  /\ taken \in [path : Paths, files : SUBSET Files, opened : BOOLEAN, lost : BOOLEAN]

\* The small image is the language of the last path the editor sent, through every
\* look that starts from it or from the root; the root has the language of its own
\* name.  There is none if the root was the first path of all, or if a look found
\* the repository or the file gone.  With --auto-update a file counts from the next
\* look, and the root leaves the language of a file sent before.
LanguageFollows ==
  look.phase = "idle" /\ session.valid =>
    IF auto_update /\ (taken.path = Root \/ tag.dirty_path # Root)
    THEN Message.small \in {NoLanguage} \cup {PropsOf(f) : f \in taken.files}
    ELSE \/ Message.small = PropsOf(taken.path)
         \/ /\ Message.small = NoLanguage
            /\ taken.lost \/ (taken.path = Root /\ taken.opened)

=============================================================================
