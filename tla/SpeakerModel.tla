----------------------------- MODULE SpeakerModel -----------------------------
(***************************************************************************)
(* Who speaks in a recording, as a page tells it: the segments an engine   *)
(* returns (archive/diarization.py), the speakers derived from segments    *)
(* and the names put in their places (viewer/app/speakers.py), as          *)
(* operators that TLC checks on small inputs.                              *)
(*                                                                         *)
(* A label is [voice, written]: whom it means once case, spacing and the   *)
(* spellings of "Speaker 1" are taken away, and which spelling it is.  A   *)
(* segment is [speaker, start, end]; a time of -1 stands for all that is   *)
(* not one.  A duration of 0 is not known.                                 *)
(***************************************************************************)
EXTENDS Integers, Sequences, FiniteSets
LOCAL INSTANCE SequencesExt
LOCAL INSTANCE FiniteSetsExt

CONSTANTS
  Voices,       \* whom labels can mean
  Unlabelled,   \* what an empty or missing label means
  Unnamed,      \* no display name
  MaxSegments,  \* MAX_SEGMENTS of an engine's answer
  MaxSpeakers,  \* MAX_SPEAKERS of a page
  MaxSnippet    \* MAX_SNIPPET_MS

ASSUME SpeakersAssumption ==
  /\ Unlabelled \notin Voices /\ MaxSegments \in Nat \ {0}
  /\ MaxSpeakers \in Nat \ {0} /\ MaxSnippet \in Nat \ {0}

source_speaker_id(label) == label.voice
Labelled(segment) == source_speaker_id(segment.speaker) # Unlabelled
_interval(segment) == segment.start >= 0 /\ segment.end > segment.start
Length(segment) == segment.end - segment.start
Within(end, duration) == IF duration > 0 THEN Min({end, duration}) ELSE end

\* Junk is dropped, an end past the recording cut, and the rest put in order.
normalize_segments(raw, duration) ==
  LET Usable(s) == Labelled(s) /\ _interval(s) /\ (duration > 0 => s.start < duration)
      kept == SelectSeq(SubSeq(raw, 1, Min({Len(raw), MaxSegments})), Usable)
      cut  == [i \in DOMAIN kept |-> [kept[i] EXCEPT !.end = Within(@, duration)]]
      Earlier(i, j) == \/ cut[i].start < cut[j].start
                       \/ cut[i].start = cut[j].start /\ cut[i].end < cut[j].end
                       \/ cut[i].start = cut[j].start /\ cut[i].end = cut[j].end /\ i < j
      order == SetToSortSeq(DOMAIN cut, Earlier)
  IN  [i \in DOMAIN cut |-> cut[order[i]]]

\* The start of the longest segment, the first of equals, and no more of it
\* than a snippet may be.
NoSnippet == <<>>
_snippet(segments, duration) ==
  LET usable == {s \in segments : _interval(s)}
      Longest(s) == \A other \in usable : \/ Length(s) > Length(other)
                                          \/ Length(s) = Length(other) /\ s.start <= other.start
      chosen == CHOOSE s \in usable : Longest(s)
      end    == Within(Min({chosen.end, chosen.start + MaxSnippet}), duration)
  IN  IF usable = {} \/ end <= chosen.start THEN NoSnippet ELSE <<chosen.start, end>>

extract_speakers(segments, duration, names) ==
  LET labelled == SelectSeq(segments, Labelled)
      First(i) == \A j \in 1 .. i - 1 : labelled[j].speaker.voice # labelled[i].speaker.voice
      order == SetToSortSeq({i \in DOMAIN labelled : First(i)}, <)
      Of(id) == {i \in DOMAIN labelled : source_speaker_id(labelled[i].speaker) = id}
      Speaker(label) ==
        [id |-> source_speaker_id(label), label |-> label, name |-> names[source_speaker_id(label)],
         count |-> Cardinality(Of(label.voice)),
         snippet |-> _snippet({labelled[i] : i \in Of(label.voice)}, duration)]
  IN  [i \in 1 .. Min({Len(order), MaxSpeakers}) |-> Speaker(labelled[order[i]].speaker)]

\* PLAUD's segments, or those of the diarization block when they name nobody.
speaker_model(plaud, diarized, duration, names, pending) ==
  LET speakers == extract_speakers(plaud, duration, names)
      own      == extract_speakers(diarized, duration, names)
  IN  IF speakers # <<>> THEN [state |-> "ready", source |-> "plaud_segments", speakers |-> speakers]
      ELSE IF own # <<>> THEN [state |-> "ready", source |-> "asr_meta", speakers |-> own]
      ELSE [state |-> IF pending THEN "pending" ELSE "unavailable", source |-> "none", speakers |-> <<>>]

\* An entry of a page's segments, and a "[label] ..." line of its transcript.
label_segments(label, names) == IF label.voice = Unlabelled THEN Unnamed ELSE names[label.voice]
display_map(speakers) == {[label |-> speakers[i].label, name |-> speakers[i].name] :
                            i \in {j \in DOMAIN speakers : speakers[j].name # Unnamed}}
apply_names_to_text(label, label_names) ==
  LET given == {e \in label_names : source_speaker_id(e.label) = source_speaker_id(label)}
  IN  IF label.voice = Unlabelled \/ given = {} THEN label ELSE (CHOOSE e \in given : TRUE).name

(***************************************************************************)
(* What a reader may rely on.                                              *)
(***************************************************************************)

Labels   == [voice : Voices \cup {Unlabelled}, written : 1 .. 2]
Times    == {<<-1, 2>>, <<0, 1>>, <<0, 4>>, <<1, 0>>, <<2, 4>>, <<5, 8>>}
Segments == {[speaker |-> l, start |-> t[1], end |-> t[2]] : l \in Labels, t \in Times}
Entries  == UNION {[1 .. n -> Segments] : n \in 0 .. 2} \cup
  {<<a, b, c>> : a \in Segments, b \in {s \in Segments : s.start >= 2},
                 c \in {s \in Segments : s.start = 0 /\ s.speaker.written = 1}}
Names    == [Voices -> {Unnamed, "name"}]
NoNames  == [v \in Voices |-> Unnamed]

\* A snippet is played from a segment that bears this speaker's label, starts
\* where it starts, and is neither longer than allowed nor past the end.
SnippetsAreReal(segments, duration) ==
  LET speakers == extract_speakers(segments, duration, NoNames)
  IN  \A i \in DOMAIN speakers : speakers[i].snippet # NoSnippet =>
        LET from == speakers[i].snippet[1]
            to   == speakers[i].snippet[2]
        IN  /\ from < to /\ to <= from + MaxSnippet /\ (duration > 0 => to <= duration)
            /\ \E j \in DOMAIN segments : /\ segments[j].speaker.voice = speakers[i].id
                                          /\ segments[j].start = from /\ segments[j].end >= to

\* Every speaker is one that some label means, and stands once.
NeverInvented(segments, duration) ==
  LET speakers == extract_speakers(segments, duration, NoNames)
      heard    == {segments[j].speaker.voice : j \in DOMAIN segments} \ {Unlabelled}
      told     == {speakers[i].id : i \in DOMAIN speakers}
  IN  /\ told \subseteq heard /\ Cardinality(told) = Len(speakers)
      /\ Len(speakers) = Min({Cardinality(heard), MaxSpeakers})

\* What an engine returned, once normalised, can be played for every speaker of
\* a recording of the duration it was normalised for, and comes in order.
DiarizedArePlayable(raw, duration) ==
  LET segments == normalize_segments(raw, duration)
      speakers == extract_speakers(segments, duration, NoNames)
  IN  /\ \A i \in DOMAIN speakers : speakers[i].snippet # NoSnippet
      /\ \A i, j \in DOMAIN segments : i < j => segments[i].start <= segments[j].start

\* A name outlives another spelling: however a line or a segment of a speaker
\* of the page is labelled, it shows the name given to the voice.
NamesOutlive(segments, names) ==
  LET speakers == extract_speakers(segments, 0, names)
  IN  \A i \in DOMAIN speakers, label \in Labels :
        label.voice = speakers[i].id =>
          /\ label_segments(label, names) = names[label.voice]
          /\ names[label.voice] # Unnamed =>
               apply_names_to_text(label, display_map(speakers)) = names[label.voice]

ASSUME SpeakersHold ==
  /\ \A segments \in Entries, duration \in {0, 3, 6} :
       /\ SnippetsAreReal(segments, duration) /\ NeverInvented(segments, duration)
       /\ DiarizedArePlayable(segments, duration)
  /\ \A segments \in Entries, names \in Names : NamesOutlive(segments, names)

\* Not kept by the code: a speaker who can be heard has a snippet.  PLAUD's
\* segments are not normalised, and _snippet takes the longest of them even when
\* it lies past the end of the audio and a shorter one does not.
AudibleHaveSnippet(segments, duration) ==
  LET speakers == extract_speakers(segments, duration, NoNames)
  IN  \A i \in DOMAIN speakers :
        (\E j \in DOMAIN segments : /\ segments[j].speaker.voice = speakers[i].id
                                    /\ _interval(segments[j]) /\ segments[j].start < duration)
          => speakers[i].snippet # NoSnippet
=============================================================================
