------------------------------- MODULE Shells ------------------------------
(***************************************************************************)
(* A3/CSE_21CS30009.c: two windows, C and E, joined by two pipes.  One     *)
(* takes commands from the user and sends them, the other executes them;   *)
(* swaprole exchanges the roles, exit ends both.  A pipe is a stream of    *)
(* bytes and the text is sent without its terminator: a read takes all     *)
(* there is, so that texts may run together, and "swap" and "role" be      *)
(* obeyed as swaprole.  A child whose execvp fails goes on in its parent's *)
(* place, while the parent waits for it.                                   *)
(***************************************************************************)
EXTENDS Integers, Sequences

CONSTANTS
  Programs,  \* commands that can be executed
  Unknown,   \* commands execvp does not find
  SwapTexts, \* commands that run together to "swaprole"
  ExitTexts, \* commands that run together to "exit"
  MaxTyped   \* bound: commands typed in all

ASSUME CommandsAssumption ==
  /\ Programs \intersect Unknown = {} /\ MaxTyped \in Nat
  /\ {"exit", "swaprole"} \intersect (Programs \union Unknown) = {}
  /\ SwapTexts \intersect ExitTexts = {}
  /\ SwapTexts \union ExitTexts \subseteq Seq(Programs \union Unknown)
  /\ \A text \in SwapTexts \union ExitTexts : Len(text) > 1

Commands == Programs \union Unknown \union {"exit", "swaprole"}
Windows == {"C", "E"}
Other(x) == IF x = "C" THEN "E" ELSE "C"

VARIABLES
  role,       \* curr_role of the process that is active in a window
  pipe,       \* pipe[x]: what x has sent and the other has not read
  busy,       \* a command runs in this window
  forks,      \* children whose execvp has failed
  ended,      \* processes of this window that have obeyed exit
  supervisor,
  typed, received,  \* commands in the order typed, and read
  spoilt,     \* a text was read that is not one command; "swapped": it was obeyed as swaprole
  paced       \* this user types when the other window waits for a command

windows == <<role, pipe, busy, forks, ended>>
vars == <<windows, supervisor, typed, received, spoilt, paced>>

Init ==
  /\ role = [x \in Windows |-> IF x = "C" THEN "input" ELSE "execute"]
  /\ pipe = [x \in Windows |-> <<>>] /\ busy = [x \in Windows |-> FALSE]
  /\ forks = [x \in Windows |-> 0] /\ ended = [x \in Windows |-> 0]
  /\ supervisor = "waits"
  /\ typed = <<>> /\ received = <<>> /\ spoilt = "no"
  /\ paced \in BOOLEAN

\* The first process of a window and all children that took its place have ended.
Gone(x) == ended[x] = forks[x] + 1
AtKeyboard(x) == role[x] = "input" /\ ~Gone(x)
Waits(x) == role[x] = "execute" /\ ~busy[x] /\ ~Gone(x)

\* A child's parent was, and is again, executing commands.
End(x) ==
  /\ ended' = [ended EXCEPT ![x] = @ + 1]
  /\ role' = [role EXCEPT ![x] = "execute"]

Becomes(x, r) == role' = [role EXCEPT ![x] = r] /\ UNCHANGED ended

----------------------------------------------------------------------------
\* Wrong variant of Type: the sender of swaprole keeps its role.
TypeKeeping(x) ==
  /\ AtKeyboard(x) /\ Len(typed) < MaxTyped
  /\ paced => Waits(Other(x)) /\ pipe[x] = <<>>
  /\ \E c \in Commands :
       /\ typed' = Append(typed, c)
       /\ pipe' = [pipe EXCEPT ![x] = Append(@, c)]
       /\ \/ c = "exit" /\ End(x)
          \/ c # "exit" /\ Becomes(x, "input")
  /\ UNCHANGED <<busy, forks, supervisor, received, spoilt, paced>>

\* Wrong variant of Type: exit is not sent.
TypeUnsent(x) ==
  /\ AtKeyboard(x) /\ Len(typed) < MaxTyped
  /\ paced => Waits(Other(x)) /\ pipe[x] = <<>>
  /\ \E c \in Commands :
       /\ typed' = Append(typed, c)
       /\ pipe' = IF c = "exit" THEN pipe ELSE [pipe EXCEPT ![x] = Append(@, c)]
       /\ \/ c = "exit" /\ End(x)
          \/ c = "swaprole" /\ Becomes(x, "execute")
          \/ c \in Programs \union Unknown /\ Becomes(x, "input")
  /\ UNCHANGED <<busy, forks, supervisor, received, spoilt, paced>>

\* fgets, printf, and what the command is to the sender.
Type(x) ==
  /\ AtKeyboard(x) /\ Len(typed) < MaxTyped
  /\ paced => Waits(Other(x)) /\ pipe[x] = <<>>
  /\ \E c \in Commands :
       /\ typed' = Append(typed, c)
       /\ pipe' = [pipe EXCEPT ![x] = Append(@, c)]
       /\ \/ c = "exit" /\ End(x)
          \/ c = "swaprole" /\ Becomes(x, "execute")
          \/ c \in Programs \union Unknown /\ Becomes(x, "input")
  /\ UNCHANGED <<busy, forks, supervisor, received, spoilt, paced>>

\* E's buffer is not initialised: its first text may have bytes after it.
MayBeGarbled(x) == x = "E" /\ received = <<>>

\* What strcmp finds equal to the built-in commands.
Swaps == SwapTexts \union {<<"swaprole">>}
Exits == ExitTexts \union {<<"exit">>}

\* Another text, such as two commands in one, may or may not name a program.
Execute(x, text, whole) ==
  /\ \E found \in BOOLEAN :
       /\ whole => found = (text[1] \in Programs)
       /\ busy' = [busy EXCEPT ![x] = found]
       /\ forks' = [forks EXCEPT ![x] = IF found THEN @ ELSE @ + 1]
  /\ UNCHANGED <<role, ended>>

\* Wrong variant of Read: the buffer still holds the end of the text before.
ReadUncleared(x) ==
  LET text == IF received = <<>> THEN pipe[Other(x)]
              ELSE pipe[Other(x)] \o <<received[Len(received)]>> IN
  /\ Waits(x) /\ pipe[Other(x)] # <<>>
  /\ pipe' = [pipe EXCEPT ![Other(x)] = <<>>]
  /\ received' = received \o text
  /\ spoilt' = IF Len(text) > 1 THEN "joined" ELSE spoilt
  /\ \/ text \in Exits /\ End(x) /\ UNCHANGED <<busy, forks>>
     \/ text \in Swaps /\ Becomes(x, "input") /\ UNCHANGED <<busy, forks>>
     \/ text \notin Exits \union Swaps /\ Execute(x, text, Len(text) = 1)
  /\ UNCHANGED <<supervisor, typed, paced>>

Read(x) ==
  LET text == pipe[Other(x)] IN
  /\ Waits(x) /\ text # <<>>
  /\ pipe' = [pipe EXCEPT ![Other(x)] = <<>>]
  /\ received' = received \o text
  /\ \E garbled \in {FALSE, MayBeGarbled(x)} :
       /\ spoilt' = IF spoilt = "swapped" \/ (~garbled /\ text \in SwapTexts) THEN "swapped"
                    ELSE CASE Len(text) > 1 -> "joined" [] garbled -> "garbled" [] OTHER -> spoilt
       /\ \/ ~garbled /\ text \in Exits /\ End(x) /\ UNCHANGED <<busy, forks>>
          \/ ~garbled /\ text \in Swaps /\ Becomes(x, "input") /\ UNCHANGED <<busy, forks>>
          \/ (garbled \/ text \notin Exits \union Swaps) /\ Execute(x, text, Len(text) = 1 /\ ~garbled)
  /\ UNCHANGED <<supervisor, typed, paced>>

\* The parent's wait(NULL).
CommandEnds(x) ==
  /\ busy[x]
  /\ busy' = [busy EXCEPT ![x] = FALSE]
  /\ UNCHANGED <<role, pipe, forks, ended, supervisor, typed, received, spoilt, paced>>

\* One wait(NULL) for two windows.
SupervisorEnds ==
  /\ supervisor = "waits" /\ \E x \in Windows : Gone(x)
  /\ supervisor' = "ended"
  /\ UNCHANGED <<windows, typed, received, spoilt, paced>>

Shell(x) == Read(x) \/ CommandEnds(x)

Next == SupervisorEnds \/ \E x \in Windows : Type(x) \/ Shell(x)

\* The windows run; the user types when he likes.
Fairness == \A x \in Windows : WF_vars(Shell(x))

Spec == Init /\ [][Next]_vars /\ Fairness

----------------------------------------------------------------------------
TypeOK ==
  /\ role \in [Windows -> {"input", "execute"}] /\ busy \in [Windows -> BOOLEAN]
  /\ pipe \in [Windows -> Seq(Commands)]
  /\ forks \in [Windows -> Nat] /\ ended \in [Windows -> Nat]
  /\ \A x \in Windows : ended[x] <= forks[x] + 1
  /\ supervisor = "waits" \/ (supervisor = "ended" /\ \E x \in Windows : Gone(x))
  /\ typed \in Seq(Commands) /\ received \in Seq(Commands)
  /\ spoilt \in {"no", "joined", "garbled", "swapped"} /\ paced \in BOOLEAN

(* At most one window takes commands, however fast the user types, unless   *)
(* texts ran together to swaprole: the reader obeys it and takes the        *)
(* keyboard, while the sender, which saw no swaprole, keeps it              *)
(* (CSE_21CS30009.c:95-103, 117-125, 186-192).                              *)
OneInput == spoilt # "swapped" => \A x, y \in Windows : AtKeyboard(x) /\ AtKeyboard(y) => x = y

(* With one keyboard commands are read in the order they were typed, across *)
(* both pipes; to a user who waits for the other window's prompt they come  *)
(* one by one and never run together (CSE_21CS30009.c:90, 111, 179, 233).   *)
InOrder ==
  /\ spoilt # "swapped" => /\ Len(received) <= Len(typed)
                           /\ received = SubSeq(typed, 1, Len(received))
  /\ paced => Len(typed) - Len(received) <= 1 /\ spoilt \notin {"joined", "swapped"}

\* Why that is so: texts under way go in one direction only, and complete what
\* has been read; nobody types while a swaprole is under way.  Only texts that
\* run together to swaprole change that, and to a paced user they never do.
OneWay == \E x \in Windows : pipe[x] = <<>>
Complete == \A x \in Windows : pipe[Other(x)] = <<>> => typed = received \o pipe[x]
HasSwap(x) == \E i \in DOMAIN pipe[x] : pipe[x][i] = "swaprole"
KeyboardAlone ==
  \A x \in Windows : AtKeyboard(x) =>
    /\ ~AtKeyboard(Other(x))
    /\ pipe[Other(x)] = <<>>
    /\ ~HasSwap(x)
Paced == paced => spoilt \notin {"joined", "swapped"} /\ \A x \in Windows : Len(pipe[x]) <= 1

IInv == /\ TypeOK /\ Paced
        /\ spoilt # "swapped" => OneWay /\ Complete /\ KeyboardAlone

(* The user can always type again, or else both windows end; unless a text  *)
(* was run together or garbled, or exit came after a command that was not   *)
(* found, when it ends the child and the parent reads on                    *)
(* (CSE_21CS30009.c:93, 115, 147, 184, 211, 236).                           *)
GoesOn ==
  []<>(\/ \E x \in Windows : AtKeyboard(x)
       \/ \A x \in Windows : Gone(x)
       \/ spoilt # "no"
       \/ \E x, y \in Windows : ended[x] > 0 /\ forks[y] > 0)
=============================================================================
