---------------------------- MODULE LanguageModel ----------------------------
(***************************************************************************)
(* One use of the language model: a translation, a script or the captions  *)
(* of a transcript, as OpenAICompatibleTextGenerator asks for them.  Only  *)
(* captions are cut into several prompts; every prompt is asked again when *)
(* its answer cannot be used, and given up when the provider fails.        *)
(***************************************************************************)
EXTENDS Naturals, Sequences, SequencesExt, Functions

CONSTANTS
    MaxCues,        \* bound: cues of a transcript
    Lengths,        \* characters of a cue, or of the content of a story
    Frame,          \* characters of a prompt around its cues
    MaxCharacters,  \* GOD_NEWS_MAX_SOURCE_CHARACTERS
    MaxBatch,       \* cues of a prompt: 100
    Retries         \* GOD_NEWS_LLM_VALIDATION_RETRIES

ASSUME BatchAssumption == MaxBatch \in Nat \ {0}
ASSUME CuesAssumption == MaxCues \in Nat

VARIABLES
    request,  \* what is wanted: its kind, the lengths given, the languages
    asked,    \* the prompts asked so far
    left,     \* the prompts still to be asked
    heard,    \* the cues translated so far
    tries,    \* unusable answers to the present prompt
    ended     \* "no", "asking", "done" or the failure

modelVars == <<request, asked, left, heard, tries, ended>>

----------------------------------------------------------------------------
(* What is asked. *)

\* A cue is its place in the transcript, a prompt a sequence of cues.
Cues == [i \in DOMAIN request.lengths |-> i]
PromptLength(cues) == FoldLeft(LAMBDA n, i : n + request.lengths[i], Frame, cues)
TooLong(cues) == PromptLength(cues) > MaxCharacters
Fits(cues) == ~TooLong(cues) /\ Len(cues) <= MaxBatch

ModelInit ==
    /\ \/ \E kind \in {"translation", "script"}, n \in Lengths, alike \in BOOLEAN :
              request = [kind |-> kind, lengths |-> <<n>>, same |-> alike]
       \/ \E count \in 0..MaxCues, same \in BOOLEAN :
              \E lengths \in [1..count -> Lengths] :
                  request = [kind |-> "captions", lengths |-> lengths, same |-> same]
    /\ asked = <<>> /\ left = <<>> /\ heard = <<>>
    /\ tries = 0
    /\ ended = "no"

\* Fault: a cue that opens a prompt is not measured.
AddUnmeasured(cut, cue) ==
    IF cut.rejected THEN cut
    ELSE IF Fits(Append(cut.open, cue)) THEN [cut EXCEPT !.open = Append(@, cue)]
    ELSE [cut EXCEPT !.prompts = IF cut.open = <<>> THEN @ ELSE Append(@, cut.open),
                     !.open = <<cue>>]

\* The loop of _caption_translation_chunks: a cue that no longer fits opens the
\* next prompt, and one that fits no prompt of its own rejects the transcript.
Add(cut, cue) ==
    IF cut.rejected THEN cut
    ELSE IF Fits(Append(cut.open, cue)) THEN [cut EXCEPT !.open = Append(@, cue)]
    ELSE IF TooLong(<<cue>>) THEN [cut EXCEPT !.rejected = TRUE]
    ELSE [cut EXCEPT !.prompts = Append(@, cut.open), !.open = <<cue>>]

Chunks ==
    LET cut == FoldLeft(Add, [prompts |-> <<>>, open |-> <<>>, rejected |-> FALSE], Cues)
    IN  [cut EXCEPT !.prompts = IF cut.open = <<>> THEN @ ELSE Append(@, cut.open)]

Ends(how) == ended' = how /\ UNCHANGED <<request, asked, left, heard, tries>>
Asks(prompts) ==
    /\ left' = prompts
    /\ ended' = "asking"
    /\ UNCHANGED <<request, asked, heard, tries>>

\* create_script sends what it is given, whatever its length.
AskForScript == ended = "no" /\ request.kind = "script" /\ Asks(<<Cues>>)

AskForTranslation ==
    /\ ended = "no" /\ request.kind = "translation"
    /\ IF request.lengths[1] > MaxCharacters THEN Ends("too long") ELSE Asks(<<Cues>>)

\* translate_timed_captions: captions in the language asked for stay theirs.
KeepCaptions ==
    /\ ended = "no" /\ request.kind = "captions"
    /\ request.lengths # <<>> /\ request.same
    /\ heard' = Cues /\ ended' = "done"
    /\ UNCHANGED <<request, asked, left, tries>>

AskForCaptions ==
    /\ ended = "no" /\ request.kind = "captions"
    /\ \/ request.lengths = <<>> /\ Ends("nothing given")
       \/ /\ request.lengths # <<>> /\ ~request.same
          /\ IF Chunks.rejected THEN Ends("too long") ELSE Asks(Chunks.prompts)

----------------------------------------------------------------------------
(* _complete_json. *)

\* The prompt is answered for good.
Answered ==
    /\ asked' = Append(asked, Head(left))
    /\ left' = Tail(left)
    /\ tries' = 0
    /\ UNCHANGED request

\* No choice, a truncated or empty answer, one that is not the schema's: the
\* same prompt is asked again, up to the retries.
UnusableAnswer ==
    /\ ended = "asking"
    /\ IF tries < Retries
       THEN tries' = tries + 1 /\ UNCHANGED <<request, asked, left, heard, ended>>
       ELSE /\ Answered /\ ended' = "malformed" /\ UNCHANGED heard

\* A timeout, a lost connection or an error status ends the request at once;
\* the adapter's own client has retried before.
ProviderFails ==
    /\ ended = "asking"
    /\ Answered
    /\ ended' \in {"unavailable", "refused"}
    /\ UNCHANGED heard

\* TranslationResult says more than the schema of the answer did: what it
\* refuses is an error of the pipeline and is not asked again.
TranslationAnswered ==
    /\ ended = "asking" /\ request.kind = "translation"
    /\ Answered
    /\ ended' \in {"done", "internal error"}
    /\ UNCHANGED heard

\* _captions: the caption of a segment in the language it is spoken in repeats
\* the words.
ValidCaptions(repeats) == request.same => repeats

\* ScriptDraft: its captions, its words and the number of its segments.
ScriptAnswered ==
    /\ ended = "asking" /\ request.kind = "script"
    /\ Answered
    /\ \E repeats, spoken \in BOOLEAN :
          ended' = IF ValidCaptions(repeats) /\ spoken THEN "done" ELSE "invalid script"
    /\ UNCHANGED heard

\* The cues of the prompt, all of them in their order, or others.
CaptionsAnswered ==
    /\ ended = "asking" /\ request.kind = "captions"
    /\ Answered
    /\ \/ /\ heard' = heard \o Head(left)
          /\ ended' = IF left' # <<>> THEN "asking"
                      ELSE IF heard' = Cues THEN "done" ELSE "incomplete"
       \/ UNCHANGED heard /\ ended' = "changed"

ModelNext ==
    \/ AskForScript \/ AskForTranslation \/ KeepCaptions \/ AskForCaptions
    \/ UnusableAnswer \/ ProviderFails \/ TranslationAnswered \/ ScriptAnswered
    \/ CaptionsAnswered

ModelSpec == ModelInit /\ [][ModelNext]_modelVars

----------------------------------------------------------------------------

(* Cutting a transcript into prompts never costs a caption: no prompt exceeds *)
(* the limits, only a cue too long for any prompt rejects the transcript, and *)
(* whoever answers as asked has translated every cue, once and in order.      *)
CaptionsAreWhole ==
    request.kind = "captions" =>
        /\ \A i \in DOMAIN (asked \o left) : Fits((asked \o left)[i])
        /\ ended = "too long" => \E i \in Range(Cues) : TooLong(<<i>>)
        /\ ended = "done" => heard = Cues
        /\ ended # "incomplete"

=============================================================================
