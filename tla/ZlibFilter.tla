----------------------------- MODULE ZlibFilter ------------------------------
(***************************************************************************)
(* A zlib stream of a script: lz_filter_impl of                            *)
(* src/src/lualib/lua_zlib.c, with the closures that zlib.deflate and      *)
(* zlib.inflate return and the collection of the stream behind them.       *)
(*                                                                         *)
(* The stream's content is a sequence of items of Data.  For inflate the   *)
(* input may also hold Mark, the end of the compressed stream, and Flaw,   *)
(* input that is not of the zlib format.  What libz does is its contract:  *)
(* it takes input and puts out the same items in order, at once or later,  *)
(* at most Room of them in a call; a call that does not fill the room has  *)
(* taken all the input, unless it met Mark or Flaw, and has nothing left   *)
(* to put out if it was told to flush, or if it inflates.                  *)
(***************************************************************************)
EXTENDS Naturals, SequencesExt

CONSTANTS Data,       \* the items of a stream
          Mark, Flaw, \* the end of a compressed stream, input out of format
          Pieces,     \* what a script may pass in one call
          Room,       \* LUAL_BUFFERSIZE
          MaxGiven    \* how many items a script passes in all

ASSUME FilterAssumption == /\ Mark \notin Data /\ Flaw \notin Data
                           /\ Pieces \subseteq Seq(Data \cup {Mark, Flaw})
                           /\ Room \in Nat \ {0}

VARIABLES
    kind,       \* "deflate" or "inflate"
    zstate,     \* the state of the z_stream: "open", "bad", "done", "ended"
    handle,     \* upvalue 1 holds the stream
    meta,       \* the stream has its metatable, hence a finalizer
    remainder,  \* upvalue 2; nil is taken for the empty string, as the code does
    inside,     \* items libz has taken and not put out
    stage,      \* in lz_filter_impl: "idle", "turn", "leave"
    input,      \* next_in, avail_in
    flush,      \* flush; "none", "sync" (or full), "finish"
    buff,       \* what the call has put out
    room,       \* avail_out
    result,     \* what libz returned last
    given,      \* the items the script has passed in so far
    shown,      \* the items the script has been returned
    answer      \* how the last call ended: "more", "end", "error", "none"

filterState == <<kind, zstate, handle, meta>>
filterCall == <<input, flush, buff, room, result>>
filterVars == <<filterState, remainder, inside, stage, filterCall, given, shown, answer>>

\* zlib.deflate(...) or zlib.inflate(...), which raises an error if libz refuses.
FilterInit ==
    /\ kind \in {"deflate", "inflate"}
    /\ zstate = "open" /\ handle = TRUE /\ meta = TRUE
    /\ remainder = <<>> /\ inside = <<>> /\ input = <<>> /\ buff = <<>>
    /\ stage = "idle"
    /\ flush = "none" /\ room = Room /\ result = "ok"
    /\ given = <<>> /\ shown = <<>> /\ answer = "none"

\* The script's string is put in front of what the last call left.
WholeInput(piece) == piece \o remainder

\* The items of a sequence before the first Mark or Flaw.
Plain(s) == LET stops == {i \in DOMAIN s : s[i] \in {Mark, Flaw}}
            IN  IF stops = {} THEN s ELSE SubSeq(s, 1, Min(stops) - 1)

Answer(a) == /\ answer' = a
             /\ UNCHANGED <<filterState, remainder, inside, stage, filterCall, shown>>

\* A call of the closure: with a string and a flush option, or without a string,
\* which finishes a deflate stream.  A closed stream takes no strings; nothing to
\* do is done without libz.
Enter(piece, mode) ==
    /\ stage = "idle"
    /\ Len(given) + Len(piece) <= MaxGiven
    /\ kind = "inflate" => mode = "none"
    /\ kind = "deflate" => piece = Plain(piece)
    /\ \/ /\ ~handle
          /\ \E a \in {"end", "error"} :
                /\ a = "end" => piece = <<>> /\ (kind = "deflate" => mode = "finish")
                /\ Answer(a)
          /\ UNCHANGED given
       \/ /\ handle
          /\ WholeInput(piece) = <<>> /\ mode = "none"
          /\ Answer("more")
          /\ UNCHANGED given
       \/ /\ handle
          /\ WholeInput(piece) # <<>> \/ mode # "none"
          /\ input' = WholeInput(piece)
          /\ flush' = mode
          /\ buff' = <<>>
          /\ given' = given \o piece
          /\ stage' = "turn"
          /\ answer' = "none"
          /\ UNCHANGED <<filterState, remainder, inside, room, result, shown>>

\* Libz, called on the input: it takes the first n items and puts out the first m
\* that it then has.
Takes(n, m) ==
    LET have == inside \o SubSeq(input, 1, n)
    IN  /\ inside' = SubSeq(have, m + 1, Len(have))
        /\ buff' = buff \o SubSeq(have, 1, m)
        /\ room' = Room - m

\* What libz may return after that.
Returns(n, m) ==
    LET rest == SubSeq(input, n + 1, Len(input))
        out == m = Len(inside) + n
        full == m = Room
    IN  \/ zstate = "done" /\ n + m = 0 /\ result' = "end"
              /\ input' = rest /\ UNCHANGED zstate
        \/ zstate \in {"bad", "ended"} /\ n + m = 0 /\ result' = "error"
              /\ UNCHANGED <<input, zstate>>
        \/ /\ zstate = "open"
           /\ full \/ (rest = <<>> /\ (kind = "inflate" \/ flush # "none" => out))
           /\ ~(flush = "finish" /\ ~full)
           /\ result' \in IF n + m = 0 THEN {"no progress", "ok"} ELSE {"ok"}
           /\ input' = rest /\ UNCHANGED zstate
        \/ /\ zstate = "open" /\ flush = "finish"
           /\ rest = <<>> /\ out
           /\ result' = "end" /\ zstate' = "done"
           /\ input' = rest
        \/ /\ zstate = "open" /\ rest # <<>> /\ out
           /\ Head(rest) \in {Mark, Flaw}
           /\ result' = (IF Head(rest) = Mark THEN "end" ELSE "error")
           /\ zstate' = (IF Head(rest) = Mark THEN "done" ELSE "bad")
           /\ input' = Tail(rest)

Libz == \E n \in 0 .. Len(Plain(input)), m \in 0 .. Room :
            /\ m <= Len(inside) + n
            /\ Takes(n, m)
            /\ Returns(n, m)

\* Mutants: the loop is left after its first turn; it goes on until the stream ends.
AgainNever == FALSE
AgainUntilEnd == result' # "end"

\* The room is full: there may be more.
Again == room' = 0

\* One turn of the loop; lz_assert raises an error, which ends the call.
Turn == /\ stage = "turn"
        /\ Libz
        /\ stage' = IF result' = "error" THEN "idle" ELSE IF Again THEN "turn" ELSE "leave"
        /\ answer' = IF result' = "error" THEN "error" ELSE answer
        /\ UNCHANGED <<kind, handle, meta, remainder, flush, given, shown>>

\* Mutant: the finalizer is left in place.
EndKeeping == handle' = FALSE /\ zstate' = "ended" /\ UNCHANGED meta

\* The stream has come to its end: no finalizer, no second use, no memory.
End == handle' = FALSE /\ zstate' = "ended" /\ meta' = FALSE

\* Mutant: the output of the call that ends the stream is not returned.
WithOutputDropped == IF result = "end" THEN shown ELSE shown \o buff

\* What the script has when it is returned the buffer of this call.
WithOutput == shown \o buff

\* The rest of the call: what is left of the input is kept for the next one.
Leave == /\ stage = "leave"
         /\ stage' = "idle"
         /\ shown' = WithOutput
         /\ remainder' = input
         /\ answer' = IF result = "end" THEN "end" ELSE "more"
         /\ IF result = "end" THEN End ELSE UNCHANGED <<zstate, handle, meta>>
         /\ UNCHANGED <<kind, inside, filterCall, given>>

\* lz_deflate_delete, lz_inflate_delete: the collector, or lua_close, which may
\* run other finalizers after this one that call the closure once more.
Finalize == /\ stage = "idle"
            /\ meta
            /\ meta' = FALSE
            /\ zstate' = "ended"
            /\ UNCHANGED <<kind, handle, remainder, inside, stage, filterCall, given, shown,
                           answer>>

FilterNext == \/ \E piece \in Pieces, mode \in {"none", "sync", "finish"} : Enter(piece, mode)
              \/ Turn \/ Leave \/ Finalize

FilterSpec == FilterInit /\ [][FilterNext]_filterVars /\ WF_filterVars(Turn \/ Leave)

-----------------------------------------------------------------------------
FilterTypeOK ==
    /\ zstate \in {"open", "bad", "done", "ended"}
    /\ handle \in BOOLEAN /\ meta \in BOOLEAN
    /\ stage \in {"idle", "turn", "leave"}
    /\ room \in 0 .. Room
    /\ flush \in {"none", "sync", "finish"}
    /\ result \in {"ok", "no progress", "end", "error"}
    /\ answer \in {"none", "more", "end", "error"}
    /\ remainder \in Seq(Data \cup {Mark, Flaw})

\* While a stream lives, nothing of it is lost, doubled or put in another order:
\* what the script was returned, what is still inside, and what the call in
\* progress holds are together what was passed in.  The new input is put before
\* what the last call left; that is harmless as long as a call leaves nothing.
ContentKept ==
    zstate = "open" => shown \o (IF stage = "idle" THEN <<>> ELSE buff) \o inside
                              \o (IF stage = "idle" THEN <<>> ELSE input)
                            = given

\* When a stream has ended by itself the script has all of it, and only what came
\* after its end is dropped.
EndsWhole == answer = "end" /\ ~handle => shown = Plain(given)

\* Alive or ended, a stream gives the script what it was fed, however libz splits it
\* up between the turns of lz_filter_impl.
StreamWhole == ContentKept /\ EndsWhole

\* What a script asked to be flushed it has been returned.
FlushedOut == [][stage = "leave" /\ flush # "none" => shown' = given]_filterVars

\* libz is told to end a stream once: the finalizer does not run on a stream that
\* was ended, and a stream without a finalizer has been ended.
EndedOnce == [][/\ meta # meta' => zstate # "ended"
                /\ ~meta' <=> zstate' = "ended"]_filterVars

\* A call of the closure returns.
CallsReturn == stage # "idle" ~> stage = "idle"

\* The loop of lz_filter_impl runs neither too short for what libz holds back nor for ever.
FlushReturns == FlushedOut /\ CallsReturn
=============================================================================
