--------------------------- MODULE IdiomComments ---------------------------
(***************************************************************************)
(* The comments at calls of recognised idioms: src/src/ida/idiom_hooks.cpp,*)
(* with the recovery passes that install the hook, name the functions that *)
(* are called, and decompile some of them.  The functions of CallIn have   *)
(* one call each, and the comment is the one at that call, as the database *)
(* keeps it.                                                               *)
(***************************************************************************)
EXTENDS RecoveryPass, Idioms

CONSTANTS
  CallIn,      \* [functions -> Funcs]: what is called
  UserComment  \* a comment of the user's

ASSUME CommentsAssumption ==
  /\ DOMAIN CallIn \subseteq Funcs /\ \A a \in DOMAIN CallIn : CallIn[a] \in Funcs
  /\ NoReturns = {name \in Names : is_noreturn(name, TRUE)}
  /\ \A c \in DOMAIN Categories : Categories[c].noreturn => Categories[c].substrings = {}
  /\ UserComment \notin 0..Len(Categories)

VARIABLES
  hexrays,    \* init_hexrays_plugin() succeeds
  installed,  \* g_installed
  comment,    \* comment[a]: an idiom, UserComment, or NoIdiom
  armed,      \* history: since IDA was started, a pass has ended with Hex-Rays there
  current     \* history: functions decompiled, once armed, since what they call was
              \* renamed or their comment changed

comments == <<hexrays, installed, comment, armed, current>>
commentVars == <<vars, comments>>

CommentsTypeOK ==
  /\ hexrays \in BOOLEAN /\ installed \in BOOLEAN /\ armed \in BOOLEAN
  /\ comment \in [DOMAIN CallIn -> 0..Len(Categories) \cup {UserComment}]
  /\ current \in SUBSET DOMAIN CallIn

CommentsInit ==
  /\ Init
  /\ hexrays \in BOOLEAN /\ installed = FALSE /\ armed = FALSE
  /\ comment = [a \in DOMAIN CallIn |-> NoIdiom] /\ current = {}

\* A dummy name is no idiom.
CommentAt(a) ==
  LET f == CallIn[a]
  IN  IF form[f] = "dummy" THEN NoIdiom ELSE comment_for(is[f], form[f] # "suffixed")

visit_expr(a) == IF CommentAt(a) = NoIdiom THEN comment ELSE [comment EXCEPT ![a] = CommentAt(a)]

\* The ctree of a is final; before that, and without the hook, nothing is done.
hexrays_callback(a) ==
  /\ comment' = IF installed THEN visit_expr(a) ELSE comment
  /\ current' = IF armed THEN current \cup {a} ELSE current

\* Mutant: a first pass without Hex-Rays is the last to try.
InstallOnce == installed' = (installed \/ (hexrays /\ passes = 1))

install_idiom_hooks == installed' = (installed \/ hexrays)

-----------------------------------------------------------------------------

\* What is called may have another name now.
RenamedIn(callers) == callers \ {a \in callers : form'[CallIn[a]] # form[CallIn[a]]}

Rename ==
  /\ rename_function \/ \E a \in Funcs : FlirtNames(a)
  /\ current' = RenamedIn(current)
  /\ UNCHANGED <<hexrays, installed, comment, armed>>

\* inferred_argcount decompiles a function without a type; that may fail.
Decompiles(a) == hexrays /\ a \in DOMAIN CallIn /\ tinfo[a] = NoSig
                   /\ Single(db, is[a]) = {} /\ Kept(db, is[a]) # {}

Prototype ==
  /\ apply_prototype
  /\ \/ UNCHANGED <<comment, current>>
     \/ \E a \in left \ left' : Decompiles(a) /\ hexrays_callback(a)
  /\ UNCHANGED <<hexrays, installed, armed>>

EndOfPass ==
  /\ PassEnds
  /\ install_idiom_hooks
  /\ armed' = (armed \/ hexrays)
  /\ UNCHANGED <<hexrays, comment, current>>

BetweenSteps ==
  /\ run_recovery \/ RenameEnds \/ \E a \in Funcs : UserTypes(a)
  /\ UNCHANGED comments

\* A user looks at a function, or comments on its call.
Decompile(a) ==
  /\ phase = "idle" /\ hexrays
  /\ hexrays_callback(a)
  /\ UNCHANGED <<vars, hexrays, installed, armed>>

UserComments(a) ==
  /\ phase = "idle"
  /\ comment' = [comment EXCEPT ![a] = UserComment] /\ current' = current \ {a}
  /\ UNCHANGED <<vars, hexrays, installed, armed>>

\* Hex-Rays is loaded after the plugin has run; IDA is started anew with the
\* same database.
LoadHexRays ==
  /\ phase = "idle" /\ ~hexrays /\ hexrays' = TRUE
  /\ UNCHANGED <<vars, installed, comment, armed, current>>

StartAgain ==
  /\ phase = "idle"
  /\ hexrays' \in BOOLEAN /\ installed' = FALSE /\ armed' = FALSE
  /\ UNCHANGED <<vars, comment, current>>

CommentsNext ==
  \/ Rename \/ Prototype \/ EndOfPass \/ BetweenSteps
  \/ \E a \in DOMAIN CallIn : Decompile(a) \/ UserComments(a)
  \/ LoadHexRays \/ StartAgain

CommentsSpec == CommentsInit /\ [][CommentsNext]_commentVars

-----------------------------------------------------------------------------
(* Properties.                                                             *)

\* A call of a no-return function, which a pass marks, is commented as one
\* whenever its function is decompiled after a pass that found Hex-Rays,
\* however late that was and whatever had been written there before; unless
\* the function called has lost its name to another one and has a suffix.
NoReturnCommented ==
  \A a \in current :
    LET f == CallIn[a]
    IN  form[f] \in {"mangled", "plain"} /\ is[f] \in NoReturns =>
          \E c \in DOMAIN Categories : comment[a] = c /\ Categories[c].noreturn
=============================================================================
