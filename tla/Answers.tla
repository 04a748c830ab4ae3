------------------------------- MODULE Answers -------------------------------
(***************************************************************************)
(* What the mock client answers to the prompt of each step, and what       *)
(* parse_output and the postcondition of the step make of an answer.  An   *)
(* answer goes by a name; Raw has what the parsers and the checks can tell *)
(* of it: the measures of the text and the JSON value it holds.            *)
(***************************************************************************)
EXTENDS Integers, Sequences, FiniteSets

-----------------------------------------------------------------------------
(* JSON values.  A string is known by its length and, where a check compares *)
(* it, by what it says.                                                      *)
Str(says, chars) == [type |-> "str", says |-> says, chars |-> chars]
Text(words, h2) == [type |-> "str", words |-> words, h2 |-> h2]
List(items) == [type |-> "list", items |-> items]
Dict(entries) == [type |-> "dict", entries |-> entries]
None == [type |-> "none"]
Invalid == [type |-> "invalid"]

IsStr(value) == value.type = "str"
IsList(value) == value.type = "list"
IsDict(value) == value.type = "dict"

Get(dict, key, default) ==
  IF key \in DOMAIN dict.entries THEN dict.entries[key] ELSE default

-----------------------------------------------------------------------------
(***************************************************************************)
(* MockClient: the canned answers, and the answers that are well formed    *)
(* and useless.                                                            *)
(***************************************************************************)
Keyword(says, chars, intent) ==
  Dict([keyword |-> Str(says, chars), intent |-> Str(intent, 10)])

Section(chars) == Dict([h2 |-> Str("h2", chars)])

\* An answer with its words, and whether there is a second-level header in it.
Answer(words, h2, json) == [words |-> words, h2 |-> h2, json |-> json]

Raw ==
  [voice_answer |-> Answer(10, FALSE,
     Dict([tone |-> Str("casual_authoritative", 20),
           vocabulary_level |-> Str("intermediate", 12),
           sentence_length |-> Str("medium", 6)])),
   keyword_answer |-> Answer(48, FALSE,
     List(<<Keyword("best_running_shoes_2026", 23, "commercial"),
            Keyword("running_shoe_reviews", 20, "informational"),
            Keyword("running_shoe_fit", 16, "informational"),
            Keyword("marathon_training_plan", 22, "informational"),
            Keyword("pronation_guide", 15, "informational"),
            Keyword("trail_running_shoes", 19, "commercial")>>)),
   outline_answer |-> Answer(38, FALSE,
     Dict([h1 |-> Str("h1", 26),
           sections |-> List(<<Section(11), Section(9), Section(12)>>)])),
   draft_answer |-> Answer(309, TRUE, Invalid),
   optimize_answer |-> Answer(123, FALSE,
     Dict([article |-> Str("article", 590), meta_description |-> Str("meta", 81),
           internal_links |-> List(<<None, None, None>>)])),
   hollow_voice |-> Answer(6, FALSE,
     Dict([tone |-> Str("empty", 0), vocabulary_level |-> Str("guru", 4),
           sentence_length |-> Str("epic", 4)])),
   hollow_keyword |-> Answer(1, FALSE, List(<<>>)),
   hollow_outline |-> Answer(6, FALSE,
     Dict([h1 |-> Str("h1", 1), sections |-> List(<<>>)])),
   hollow_draft |-> Answer(4, FALSE, Invalid),
   hollow_optimize |-> Answer(7, FALSE,
     Dict([article |-> Str("article", 10), meta_description |-> Str("meta", 5),
           internal_links |-> List(<<>>)])),
   braces |-> Answer(1, FALSE, Dict(<<>>)),
   garbage |-> Answer(1, FALSE, Invalid)]

NormalResponse ==
  [voice |-> "voice_answer", keyword |-> "keyword_answer", outline |-> "outline_answer",
   draft |-> "draft_answer", optimize |-> "optimize_answer", none |-> "braces"]

HallucinatedResponse ==
  [voice |-> "hollow_voice", keyword |-> "hollow_keyword", outline |-> "hollow_outline",
   draft |-> "hollow_draft", optimize |-> "hollow_optimize", none |-> "braces"]

\* The markers the mock client looks for that are in the prompt of a step: in
\* its own wording, or in the outputs of earlier steps that are quoted in it.
\* (Spaces are written as underscores.)
PromptMarkers ==
  [voice |-> {"brand_voice", "voice", "tone"},
   keyword |-> {"keyword", "json_array", "voice", "tone"},
   outline |-> {"outline", "json_outline", "keyword", "voice", "tone"},
   draft |-> {"outline", "write_the_full_article_body", "800_words", "keyword",
              "voice", "tone"},
   optimize |-> {"optimize", "seo-revised", "internal_links", "keyword"}]

\* Slip: the markers of the keyword step are looked for first.
SlipTests ==
  <<[step |-> "keyword", on |-> {{"keyword"}}],
    [step |-> "optimize", on |-> {{"optimize"}, {"seo-revised"}, {"internal_links"}}],
    [step |-> "outline", on |-> {{"outline", "json_outline"}}],
    [step |-> "draft", on |-> {{"write_the_full_article_body"}, {"800_words"}}],
    [step |-> "voice", on |-> {{"brand_voice"}, {"voice", "tone"}}]>>

\* Which step a prompt comes from: the first test that finds all the markers of
\* one of its alternatives.
Tests ==
  <<[step |-> "optimize", on |-> {{"optimize"}, {"seo-revised"}, {"internal_links"}}],
    [step |-> "outline", on |-> {{"outline", "json_outline"}}],
    [step |-> "draft", on |-> {{"write_the_full_article_body"}, {"800_words"}}],
    [step |-> "keyword", on |-> {{"keyword", "json_array"}}],
    [step |-> "voice", on |-> {{"brand_voice"}, {"voice", "tone"}}]>>

Asked == [step \in DOMAIN PromptMarkers |->
  LET hits == {i \in DOMAIN Tests :
                 \E all \in Tests[i].on : all \subseteq PromptMarkers[step]}
  IN  IF hits = {} THEN "none"
      ELSE Tests[CHOOSE i \in hits : \A j \in hits : i <= j].step]

-----------------------------------------------------------------------------
(***************************************************************************)
(* The postconditions.                                                     *)
(***************************************************************************)
CheckVoice(output) ==
  /\ IsDict(output)
  /\ LET tone == Get(output, "tone", None) IN IsStr(tone) /\ tone.chars > 0
  /\ LET level == Get(output, "vocabulary_level", None)
     IN  IsStr(level) /\ level.says \in {"beginner", "intermediate", "expert"}
  /\ LET length == Get(output, "sentence_length", None)
     IN  IsStr(length) /\ length.says \in {"short", "medium", "long"}

\* Slip: the number of keywords is not checked.
SlipCheckKeyword(output) ==
  /\ IsList(output)
  /\ \A i \in DOMAIN output.items : IsDict(output.items[i])

CheckKeyword(output) ==
  /\ IsList(output)
  /\ Len(output.items) >= 5
  /\ \A i \in DOMAIN output.items :
       LET item == output.items[i]
           keyword(it) == Get(it, "keyword", Str("empty", 0))
           intent(it) == Get(it, "intent", None)
       IN  /\ IsDict(item)
           /\ IsStr(keyword(item)) /\ keyword(item).chars >= 3
           /\ \A j \in 1..(i - 1) :
                keyword(item).says # keyword(output.items[j]).says
           /\ IsStr(intent(item))
           /\ intent(item).says \in
                {"informational", "commercial", "navigational", "transactional"}

CheckOutline(output) ==
  /\ IsDict(output)
  /\ LET h1 == Get(output, "h1", Str("empty", 0)) IN IsStr(h1) /\ h1.chars >= 5
  /\ LET sections == Get(output, "sections", List(<<>>))
     IN  /\ IsList(sections)
         /\ Len(sections.items) >= 3
         /\ \A i \in DOMAIN sections.items :
              /\ IsDict(sections.items[i])
              /\ LET h2 == Get(sections.items[i], "h2", Str("empty", 0))
                 IN  IsStr(h2) /\ h2.chars >= 3

CheckDraft(output) == IsStr(output) /\ output.words >= 300 /\ output.h2

CheckOptimize(output) ==
  /\ IsDict(output)
  /\ LET meta == Get(output, "meta_description", Str("empty", 0))
     IN  IsStr(meta) /\ meta.chars \in 50..160
  /\ LET article == Get(output, "article", Str("empty", 0))
     IN  IsStr(article) /\ article.chars >= 200
  /\ IsList(Get(output, "internal_links", List(<<>>)))

Postcondition(step, output) ==
  CASE step = "voice"    -> CheckVoice(output)
    [] step = "keyword"  -> CheckKeyword(output)
    [] step = "outline"  -> CheckOutline(output)
    [] step = "draft"    -> CheckDraft(output)
    [] step = "optimize" -> CheckOptimize(output)

\* parse_output: the draft stays text, every other answer is one JSON value.
ParseOutput(step, name) ==
  IF step = "draft" THEN Text(Raw[name].words, Raw[name].h2) ELSE Raw[name].json

\* What the parser and the postcondition of a step say of an answer.
Verdict == [step \in DOMAIN PromptMarkers |-> [name \in DOMAIN Raw |->
  LET output == ParseOutput(step, name)
  IN  CASE output = Invalid -> "ValueError"
        [] output # Invalid /\ Postcondition(step, output) -> "ok"
        [] OTHER -> "SelfTestFailed"]]

=============================================================================
