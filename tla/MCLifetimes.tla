----------------------------- MODULE MCLifetimes -----------------------------
(***************************************************************************)
(* What is destroyed, when and by whom: exit callbacks, the thread-local   *)
(* storage of a thread, objects shared by intrusive pointers, and what is  *)
(* in the standard streams when they go.  TLC explores the programs it is  *)
(* given in one run; the variables of those not chosen are idle.           *)
(***************************************************************************)
EXTENDS ExitCallbacks, TLC

CONSTANTS a, b, t1, t2, t3,
          Addresses, NoKey, LookUps, MaxKeys, MaxItems,
          Blocks, NoThread, MaxRefs, Careful,
          Inputs, Writes, Reads, Whole, FLUSH_THRESHOLD, INCREMENT, GRAIN, MaxCalls,
          Programs

\* There are finitely many threads, and numbers bound what is made.
ASSUME LifetimesAssumption ==
  /\ IsFiniteSet(Threads) /\ NoThread \notin Threads
  /\ MaxKeys \in Nat /\ MaxItems \in Nat
  /\ NoKey \notin Addresses \X Nat
  /\ Blocks \subseteq Nat \ {0}
  /\ Programs \subseteq {"exit", "thread", "pointers", "streams"}

\* A line, code points of every width, and the end of input from a console.
MCInputs == {<<"w", "n", "s", "z">>}

MCWrites == {[what |-> "binary", data |-> <<<<"a", 1>>, <<"w", 1>>>>, line |-> FALSE],
             [what |-> "char",   data |-> <<"s">>,                    line |-> FALSE],
             [what |-> "text",   data |-> <<<<"w", 1>>>>,             line |-> TRUE]}

Calling(whats, hows, lines) == [what : whats, how : hows, room : {2}, line : lines]

\* Text read at once, from devices that hand out any number of units.
MCTextInputs == {<<"w", "a">>, <<"s", "n">>}
MCTextReads == Calling({"char", "text"}, {"read"}, {FALSE})

\* A byte is read as a code point is from a console, and as binary data are from a file.
MCReads == Calling({"char"}, {"peek", "read"}, {FALSE})
             \cup Calling({"binary"}, {"peek", "read", "discard"}, {FALSE})
             \cup Calling({"text"}, {"read"}, BOOLEAN)

Three == {t1, t2, t3}
Two   == {a, b}

VARIABLES program,
          keys, counter, tree, building, current, made, since, entered, entry, gone, needs,
          pool, word, use, life, ref, view, owner, guard, strong, weak, reg,
          console, stream, input, rest, gave, seen, accepted, shown, calls, up

ofThread   == <<keys, counter, tree, building, current, made, since, entered, entry,
                gone, needs>>
ofPointers == <<pool, word, use, life, ref, view, owner, guard, strong, weak, reg>>
ofStreams  == <<console, stream, input, rest, gave, seen, accepted, shown, calls, up>>

T  == INSTANCE ThreadLocal
P  == INSTANCE IntrusivePtr
IO == INSTANCE StandardStreams

\* What comes in is no U+FFFD, which stands for what can not be decoded, and the program
\* makes calls that there are.
CallsAreKnown ==
  /\ \A cs \in Inputs : cs \in Seq(IO!CodePoints \ {"?"})
  /\ \A w \in Writes :
       /\ w.what \in {"byte", "binary", "char", "text"} /\ w.line \in BOOLEAN
       /\ w.data \in IF w.what = "char" THEN Seq(IO!CodePoints) ELSE Seq(IO!CodePoints \X Nat)
       /\ w.what \in {"byte", "char"} => Len(w.data) = 1
  /\ Reads \subseteq [what : {"byte", "binary", "char", "text"},
                       how : {"peek", "read", "discard"}, room : Nat, line : BOOLEAN]
  /\ {FLUSH_THRESHOLD, INCREMENT, GRAIN, MaxCalls} \subseteq Nat /\ GRAIN > 0

ASSUME StreamsAssumption == CallsAreKnown

Off == "off"
OffThread   == /\ keys = Off /\ counter = Off /\ tree = Off /\ building = Off
               /\ current = Off /\ made = Off /\ since = Off /\ entered = Off
               /\ entry = Off /\ gone = Off /\ needs = Off
OffPointers == /\ pool = Off /\ word = Off /\ use = Off /\ life = Off /\ ref = Off
               /\ view = Off /\ owner = Off /\ guard = Off /\ strong = Off
               /\ weak = Off /\ reg = Off
OffStreams  == /\ console = Off /\ stream = Off /\ input = Off /\ rest = Off
               /\ gave = Off /\ seen = Off /\ accepted = Off /\ shown = Off
               /\ calls = Off /\ up = Off

\* Standard output and standard error are two consoles and standard input is a file,
\* or the other way round.
MCInit ==
  /\ program \in Programs
  /\ \/ program = "exit" /\ Init /\ OffThread /\ OffPointers /\ OffStreams
     \/ /\ program = "thread" /\ T!Init /\ OffPointers /\ OffStreams
        /\ spareInUse = Off /\ added = Off /\ pc = Off /\ exiting = Off
        /\ block = Off /\ ran = Off
     \/ /\ program = "pointers" /\ P!Init /\ OffThread /\ OffStreams
        /\ spareInUse = Off /\ allocated = Off /\ added = Off
        /\ exiting = Off /\ phase = Off /\ block = Off /\ ran = Off
        /\ newest = Off
     \/ /\ program = "streams" /\ IO!Init /\ OffThread /\ OffPointers
        /\ console["err"] = console["out"] /\ console["in"] # console["out"]
        /\ list = Off /\ spareInUse = Off /\ allocated = Off /\ added = Off
        /\ exiting = Off /\ phase = Off /\ block = Off /\ ran = Off
        /\ newest = Off

MCNext ==
  /\ \/ program = "exit" /\ Next /\ UNCHANGED <<ofThread, ofPointers, ofStreams>>
     \/ /\ program = "thread" /\ T!Next
        /\ UNCHANGED <<spareInUse, added, pc, exiting, block, ran, ofPointers, ofStreams>>
     \/ /\ program = "pointers" /\ P!Next
        /\ UNCHANGED <<spareInUse, allocated, added, exiting, phase, block, ran, newest,
                       ofThread, ofStreams>>
     \/ /\ program = "streams" /\ IO!Next
        /\ UNCHANGED <<list, spareInUse, allocated, added, exiting, phase, block, ran, newest,
                       ofThread, ofPointers>>
  /\ UNCHANGED program

everything == <<vars, ofThread, ofPointers, ofStreams, program>>

MCSpec == MCInit /\ [][MCNext]_everything

Symmetry == Permutations(Three)

-----------------------------------------------------------------------------

\* Blocks of callbacks and thread-local objects are allocated, linked and freed in
\* step, whatever fails in between, and every variable has its type.
AccountedFor == CASE program = "exit"     -> Safety
                  [] program = "thread"   -> T!Safety
                  [] OTHER -> TRUE

\* What was registered or constructed is called or destroyed once.
AllOnce == CASE program = "exit"     -> EachOnce
             [] program = "thread"   -> T!EachOnce
             [] OTHER -> TRUE

\* And in the reverse order of its coming.
LastFirst == CASE program = "exit"     -> ReverseOrder
               [] program = "thread"   -> T!ReverseOrder
               [] OTHER -> TRUE

\* Storage outlives what was constructed with its help.
NeededOutlive == program = "thread" => T!NeededOutlive

\* A key finds the storage that was constructed for it, and no other.
OwnStorage == program = "thread" => T!OwnStorage

\* The counts of an object and its view are those of the references to them, and
\* neither dangles nor leaks.
PointersSound == program = "pointers" => P!PointersSound

\* Once the last strong reference was dropped no weak one brings the object back.
NoRevival == P!NoRevival

\* Nothing is lost, repeated or put out of order or out of the storage, on the way
\* from a device to the readers of standard input or from the writers to a device.
StreamsSound == program = "streams" => IO!StreamsSound

\* What was put out before a thread asks for input is shown before it waits for it.
PromptShown == program = "streams" => IO!PromptShown

\* Reading text never returns part of a code point, if whole ones come in.
TextIsWhole == program = "streams" => IO!TextIsWhole

=============================================================================
