---------------------------- MODULE OutcomeProofs ----------------------------
(***************************************************************************)
(* Theorems about the outcome of a run with an injecting client: what the  *)
(* checkpoint holds, what the log shows of the plan, and what the harness  *)
(* reports.  For every order of the steps, every retry budget, every       *)
(* scenario in the set and every profile.                                  *)
(***************************************************************************)
EXTENDS InjectedHistory, InjectedProofs, HistoryProofs

-----------------------------------------------------------------------------
(* The answers *)

FiveSteps == {"voice", "keyword", "outline", "draft", "optimize"}

LEMMA StepsAreFive == StepNames \subseteq FiveSteps
<1>1. DOMAIN PromptMarkers = FiveSteps
  BY DEF PromptMarkers, FiveSteps
<1> QED
  BY <1>1, MockAnswers

\* A prompt passes a test when it has all the markers of an alternative of it.
Passes(i, step) == \E all \in Tests[i].on : all \subseteq PromptMarkers[step]

\* The tests of the mock client, one by one.
LEMMA TestFacts ==
  /\ DOMAIN Tests = 1..5
  /\ Tests[1].step = "optimize" /\ Tests[2].step = "outline"
  /\ Tests[3].step = "draft" /\ Tests[4].step = "keyword" /\ Tests[5].step = "voice"
  /\ Tests[1].on = {{"optimize"}, {"seo-revised"}, {"internal_links"}}
  /\ Tests[2].on = {{"outline", "json_outline"}}
  /\ Tests[3].on = {{"write_the_full_article_body"}, {"800_words"}}
  /\ Tests[4].on = {{"keyword", "json_array"}}
  /\ Tests[5].on = {{"brand_voice"}, {"voice", "tone"}}
<1>1. DOMAIN Tests = 1..5
  BY DEF Tests
<1>2. Tests[1].step = "optimize"
      /\ Tests[1].on = {{"optimize"}, {"seo-revised"}, {"internal_links"}}
  BY DEF Tests
<1>3. Tests[2].step = "outline" /\ Tests[2].on = {{"outline", "json_outline"}}
  BY DEF Tests
<1>4. Tests[3].step = "draft"
      /\ Tests[3].on = {{"write_the_full_article_body"}, {"800_words"}}
  BY DEF Tests
<1>5. Tests[4].step = "keyword" /\ Tests[4].on = {{"keyword", "json_array"}}
  BY DEF Tests
<1>6. Tests[5].step = "voice" /\ Tests[5].on = {{"brand_voice"}, {"voice", "tone"}}
  BY DEF Tests
<1> QED
  BY <1>1, <1>2, <1>3, <1>4, <1>5, <1>6

\* The markers in the prompt of each step.
LEMMA MarkerFacts ==
  /\ PromptMarkers["voice"] = {"brand_voice", "voice", "tone"}
  /\ PromptMarkers["keyword"] = {"keyword", "json_array", "voice", "tone"}
  /\ PromptMarkers["outline"] = {"outline", "json_outline", "keyword", "voice", "tone"}
  /\ PromptMarkers["draft"]
       = {"outline", "write_the_full_article_body", "800_words", "keyword", "voice", "tone"}
  /\ PromptMarkers["optimize"] = {"optimize", "seo-revised", "internal_links", "keyword"}
BY DEF PromptMarkers

\* Which steps' prompts pass which tests, up to the first one.
LEMMA TestsPassed ==
  ASSUME NEW step \in FiveSteps
  PROVE  /\ Passes(1, step) <=> step = "optimize"
         /\ Passes(2, step) <=> step = "outline"
         /\ Passes(3, step) <=> step = "draft"
         /\ Passes(4, step) <=> step = "keyword"
         /\ step = "voice" => Passes(5, step)
<1> DEFINE markers == PromptMarkers[step]
<1>1. step = "voice" \/ step = "keyword" \/ step = "outline" \/ step = "draft"
        \/ step = "optimize"
  BY DEF FiveSteps
<1>2. /\ step = "voice" => markers = {"brand_voice", "voice", "tone"}
      /\ step = "keyword" => markers = {"keyword", "json_array", "voice", "tone"}
      /\ step = "outline" => markers = {"outline", "json_outline", "keyword", "voice", "tone"}
      /\ step = "draft" => markers = {"outline", "write_the_full_article_body", "800_words",
                                      "keyword", "voice", "tone"}
      /\ step = "optimize" => markers = {"optimize", "seo-revised", "internal_links", "keyword"}
  BY MarkerFacts
<1> HIDE DEF markers
<1>3. Passes(1, step)
        <=> "optimize" \in markers \/ "seo-revised" \in markers \/ "internal_links" \in markers
  <2>1. Tests[1].on = {{"optimize"}, {"seo-revised"}, {"internal_links"}}
    BY TestFacts
  <2> QED
    BY <2>1 DEF Passes, markers
<1>4. Passes(2, step) <=> "outline" \in markers /\ "json_outline" \in markers
  <2>1. Tests[2].on = {{"outline", "json_outline"}}
    BY TestFacts
  <2> QED
    BY <2>1 DEF Passes, markers
<1>5. Passes(3, step) <=> "write_the_full_article_body" \in markers \/ "800_words" \in markers
  <2>1. Tests[3].on = {{"write_the_full_article_body"}, {"800_words"}}
    BY TestFacts
  <2> QED
    BY <2>1 DEF Passes, markers
<1>6. Passes(4, step) <=> "keyword" \in markers /\ "json_array" \in markers
  <2>1. Tests[4].on = {{"keyword", "json_array"}}
    BY TestFacts
  <2> QED
    BY <2>1 DEF Passes, markers
<1>7. "brand_voice" \in markers => Passes(5, step)
  <2>1. {"brand_voice"} \in Tests[5].on
    BY TestFacts
  <2> QED
    BY <2>1 DEF Passes, markers
<1> QED
  BY <1>1, <1>2, <1>3, <1>4, <1>5, <1>6, <1>7

\* The first test that a prompt passes decides.
LEMMA FirstTestDecides ==
  ASSUME NEW step \in FiveSteps, NEW i \in 1..5, Passes(i, step),
         \A j \in 1..5 : j < i => ~Passes(j, step)
  PROVE  Asked[step] = Tests[i].step
<1> DEFINE hits == {j \in DOMAIN Tests : \E all \in Tests[j].on : all \subseteq PromptMarkers[step]}
           first == CHOOSE k \in hits : \A j \in hits : k <= j
<1>1. DOMAIN PromptMarkers = FiveSteps
  BY DEF PromptMarkers, FiveSteps
<1>2. Asked[step] = IF hits = {} THEN "none" ELSE Tests[first].step
  BY <1>1 DEF Asked
<1>3. hits = {j \in 1..5 : Passes(j, step)}
  BY TestFacts DEF Passes
<1> HIDE DEF hits
<1>4. i \in hits /\ \A j \in hits : j \in 1..5 /\ i <= j
  BY <1>3
<1>5. first \in hits /\ \A j \in hits : first <= j
  BY <1>4
<1> HIDE DEF first
<1>6. first = i
  BY <1>4, <1>5
<1> QED
  BY <1>2, <1>4, <1>6

\* The mock client takes every prompt for that of its own step.
LEMMA AskedOwnStep ==
  ASSUME NEW step \in FiveSteps
  PROVE  Asked[step] = step
<1>1. \E i \in 1..5 : Tests[i].step = step /\ Passes(i, step)
                      /\ \A j \in 1..5 : j < i => ~Passes(j, step)
  <2>1. CASE step = "optimize"
    <3> WITNESS 1 \in 1..5
    <3> QED
      BY <2>1, TestFacts, TestsPassed
  <2>2. CASE step = "outline"
    <3> WITNESS 2 \in 1..5
    <3>1. \A j \in 1..5 : j < 2 => j = 1
      OBVIOUS
    <3> QED
      BY <2>2, <3>1, TestFacts, TestsPassed
  <2>3. CASE step = "draft"
    <3> WITNESS 3 \in 1..5
    <3>1. \A j \in 1..5 : j < 3 => j = 1 \/ j = 2
      OBVIOUS
    <3> QED
      BY <2>3, <3>1, TestFacts, TestsPassed
  <2>4. CASE step = "keyword"
    <3> WITNESS 4 \in 1..5
    <3>1. \A j \in 1..5 : j < 4 => j = 1 \/ j = 2 \/ j = 3
      OBVIOUS
    <3> QED
      BY <2>4, <3>1, TestFacts, TestsPassed
  <2>5. CASE step = "voice"
    <3> WITNESS 5 \in 1..5
    <3>1. \A j \in 1..5 : j < 5 => j = 1 \/ j = 2 \/ j = 3 \/ j = 4
      OBVIOUS
    <3> QED
      BY <2>5, <3>1, TestFacts, TestsPassed
  <2> QED
    BY <2>1, <2>2, <2>3, <2>4, <2>5 DEF FiveSteps
<1> QED
  BY <1>1, FirstTestDecides

\* A verdict is ok if the answer parses and meets the postcondition.
LEMMA VerdictFacts ==
  ASSUME NEW step \in FiveSteps, NEW name \in DOMAIN Raw
  PROVE  Verdict[step][name] = "ok"
           <=> ParseOutput(step, name) # Invalid /\ Postcondition(step, ParseOutput(step, name))
<1> DEFINE output == ParseOutput(step, name)
<1>1. DOMAIN PromptMarkers = FiveSteps
  BY DEF PromptMarkers, FiveSteps
<1>2. Verdict[step][name] =
        CASE output = Invalid -> "ValueError"
          [] output # Invalid /\ Postcondition(step, output) -> "ok"
          [] OTHER -> "SelfTestFailed"
  BY <1>1 DEF Verdict
<1> HIDE DEF output
<1>3. output = Invalid => Verdict[step][name] = "ValueError"
  BY <1>2
<1>4. output # Invalid /\ Postcondition(step, output) => Verdict[step][name] = "ok"
  BY <1>2
<1>5. output # Invalid /\ ~Postcondition(step, output) => Verdict[step][name] = "SelfTestFailed"
  BY <1>2
<1> QED
  BY <1>3, <1>4, <1>5 DEF output

LEMMA RawNames ==
  DOMAIN Raw = {"voice_answer", "keyword_answer", "outline_answer", "draft_answer",
                "optimize_answer", "hollow_voice", "hollow_keyword", "hollow_outline",
                "hollow_draft", "hollow_optimize", "braces", "garbage"}
BY DEF Raw

\* The checks that the spoilt answers fail.
LEMMA ChecksFail ==
  ASSUME NEW output
  PROVE  /\ ~IsStr(Get(output, "tone", None)) \/ ~(Get(output, "tone", None).chars > 0)
              => ~CheckVoice(output)
         /\ ~IsList(output) \/ ~(Len(output.items) >= 5) => ~CheckKeyword(output)
         /\ ~(Get(output, "h1", Str("empty", 0)).chars >= 5) => ~CheckOutline(output)
         /\ ~(output.words >= 300) => ~CheckDraft(output)
         /\ Get(output, "meta_description", Str("empty", 0)).chars \in 0..49
              => ~CheckOptimize(output)
<1>1. CheckVoice(output) =>
        IsStr(Get(output, "tone", None)) /\ Get(output, "tone", None).chars > 0
  BY DEF CheckVoice
<1>2. CheckKeyword(output) => IsList(output) /\ Len(output.items) >= 5
  BY DEF CheckKeyword
<1>3. CheckOutline(output) => Get(output, "h1", Str("empty", 0)).chars >= 5
  BY DEF CheckOutline
<1>4. CheckDraft(output) => output.words >= 300
  BY DEF CheckDraft
<1>5. CheckOptimize(output) => Get(output, "meta_description", Str("empty", 0)).chars \in 50..160
  BY DEF CheckOptimize
<1>6. Get(output, "meta_description", Str("empty", 0)).chars \in 0..49
        => Get(output, "meta_description", Str("empty", 0)).chars \notin 50..160
  <2>1. \A chars \in 0..49 : chars \notin 50..160
    OBVIOUS
  <2> QED
    BY <2>1
<1> QED
  BY <1>1, <1>2, <1>3, <1>4, <1>5, <1>6

\* An empty object has none of the keys.
LEMMA BracesFacts ==
  /\ ~IsStr(Get(Dict(<<>>), "tone", None))
  /\ ~IsList(Dict(<<>>))
  /\ Get(Dict(<<>>), "h1", Str("empty", 0)).chars = 0
  /\ Get(Dict(<<>>), "meta_description", Str("empty", 0)).chars = 0
<1>1. \A key, default : Get(Dict(<<>>), key, default) = default
  BY DEF Dict, Get
<1>2. ~IsStr(None)
  BY DEF None, IsStr
<1>3. Str("empty", 0).chars = 0
  BY DEF Str
<1>4. ~IsList(Dict(<<>>))
  BY DEF Dict, IsList
<1>5. Get(Dict(<<>>), "tone", None) = None
  BY <1>1
<1>6. Get(Dict(<<>>), "h1", Str("empty", 0)) = Str("empty", 0)
  BY <1>1
<1>7. Get(Dict(<<>>), "meta_description", Str("empty", 0)) = Str("empty", 0)
  BY <1>1
<1> QED
  BY <1>2, <1>3, <1>4, <1>5, <1>6, <1>7

\* What the hollow answers have.
LEMMA HollowFacts ==
  /\ Get(Raw["hollow_voice"].json, "tone", None).chars = 0
  /\ Raw["hollow_keyword"].json.items = <<>>
  /\ Get(Raw["hollow_outline"].json, "h1", Str("empty", 0)).chars = 1
  /\ Raw["hollow_draft"].words = 4
  /\ Get(Raw["hollow_optimize"].json, "meta_description", Str("empty", 0)).chars = 5
<1>1. Raw["hollow_voice"].json
        = Dict([tone |-> Str("empty", 0), vocabulary_level |-> Str("guru", 4),
                sentence_length |-> Str("epic", 4)])
  BY DEF Raw, Answer
<1>2. Raw["hollow_keyword"].json = List(<<>>)
  BY DEF Raw, Answer
<1>3. Raw["hollow_outline"].json = Dict([h1 |-> Str("h1", 1), sections |-> List(<<>>)])
  BY DEF Raw, Answer
<1>4. Raw["hollow_draft"].words = 4
  BY DEF Raw, Answer
<1>5. Raw["hollow_optimize"].json
        = Dict([article |-> Str("article", 10), meta_description |-> Str("meta", 5),
                internal_links |-> List(<<>>)])
  BY DEF Raw, Answer
<1>6. \A says, chars : Str(says, chars).chars = chars
  BY DEF Str
<1>7. Get(Raw["hollow_voice"].json, "tone", None).chars = 0
  <2>1. Get(Raw["hollow_voice"].json, "tone", None) = Str("empty", 0)
    BY <1>1 DEF Get, Dict
  <2> QED
    BY <1>6, <2>1
<1>8. Get(Raw["hollow_outline"].json, "h1", Str("empty", 0)).chars = 1
  <2>1. Get(Raw["hollow_outline"].json, "h1", Str("empty", 0)) = Str("h1", 1)
    BY <1>3 DEF Get, Dict
  <2> QED
    BY <1>6, <2>1
<1>9. Get(Raw["hollow_optimize"].json, "meta_description", Str("empty", 0)).chars = 5
  <2>1. Get(Raw["hollow_optimize"].json, "meta_description", Str("empty", 0)) = Str("meta", 5)
    BY <1>5 DEF Get, Dict
  <2> QED
    BY <1>6, <2>1
<1>10. Raw["hollow_keyword"].json.items = <<>>
  BY <1>2 DEF List
<1> QED
  BY <1>4, <1>7, <1>8, <1>9, <1>10

\* The checks that the full answers pass.
LEMMA Dicts ==
  ASSUME NEW entries
  PROVE  /\ IsDict(Dict(entries)) /\ Dict(entries) # Invalid
         /\ \A key, default : key \in DOMAIN entries =>
              Get(Dict(entries), key, default) = entries[key]
BY DEF IsDict, Dict, Invalid, Get

LEMMA Strings ==
  ASSUME NEW says, NEW chars
  PROVE  IsStr(Str(says, chars)) /\ Str(says, chars).says = says /\ Str(says, chars).chars = chars
BY DEF IsStr, Str

LEMMA Lists ==
  ASSUME NEW items
  PROVE  IsList(List(items)) /\ List(items).items = items /\ List(items) # Invalid
BY DEF IsList, List, Invalid

LEMMA VoicePasses == Raw["voice_answer"].json # Invalid /\ CheckVoice(Raw["voice_answer"].json)
<1> DEFINE entries == [tone |-> Str("casual_authoritative", 20),
                       vocabulary_level |-> Str("intermediate", 12),
                       sentence_length |-> Str("medium", 6)]
<1>1. Raw["voice_answer"].json = Dict(entries)
  BY DEF Raw, Answer
<1>2. /\ {"tone", "vocabulary_level", "sentence_length"} \subseteq DOMAIN entries
      /\ entries["tone"] = Str("casual_authoritative", 20)
      /\ entries["vocabulary_level"] = Str("intermediate", 12)
      /\ entries["sentence_length"] = Str("medium", 6)
  OBVIOUS
<1> HIDE DEF entries
<1>3. /\ Get(Dict(entries), "tone", None) = Str("casual_authoritative", 20)
      /\ Get(Dict(entries), "vocabulary_level", None) = Str("intermediate", 12)
      /\ Get(Dict(entries), "sentence_length", None) = Str("medium", 6)
  BY <1>2, Dicts
<1> QED
  BY <1>1, <1>3, Dicts, Strings DEF CheckVoice

LEMMA KeywordPasses ==
  Raw["keyword_answer"].json # Invalid /\ CheckKeyword(Raw["keyword_answer"].json)
<1> DEFINE items == <<Keyword("best_running_shoes_2026", 23, "commercial"),
                      Keyword("running_shoe_reviews", 20, "informational"),
                      Keyword("running_shoe_fit", 16, "informational"),
                      Keyword("marathon_training_plan", 22, "informational"),
                      Keyword("pronation_guide", 15, "informational"),
                      Keyword("trail_running_shoes", 19, "commercial")>>
           says == <<"best_running_shoes_2026", "running_shoe_reviews", "running_shoe_fit",
                     "marathon_training_plan", "pronation_guide", "trail_running_shoes">>
           answer == List(items)
<1>1. Raw["keyword_answer"].json = answer
  BY DEF Raw, Answer
<1>2. \A word, chars, intent :
        /\ IsDict(Keyword(word, chars, intent))
        /\ Get(Keyword(word, chars, intent), "keyword", Str("empty", 0)) = Str(word, chars)
        /\ Get(Keyword(word, chars, intent), "intent", None) = Str(intent, 10)
  BY DEF Keyword, Dict, Get, IsDict
<1>3. ASSUME NEW i \in 1..6
      PROVE  \E chars \in 3..30, intent \in {"informational", "commercial"} :
               items[i] = Keyword(says[i], chars, intent)
  <2>1. /\ items[1] = Keyword(says[1], 23, "commercial")
        /\ items[2] = Keyword(says[2], 20, "informational")
        /\ items[3] = Keyword(says[3], 16, "informational")
        /\ items[4] = Keyword(says[4], 22, "informational")
        /\ items[5] = Keyword(says[5], 15, "informational")
        /\ items[6] = Keyword(says[6], 19, "commercial")
    OBVIOUS
  <2>2. i = 1 \/ i = 2 \/ i = 3 \/ i = 4 \/ i = 5 \/ i = 6
    OBVIOUS
  <2> HIDE DEF items, says
  <2>3. {23, 20, 16, 22, 15, 19} \subseteq 3..30
    OBVIOUS
  <2> QED
    BY <2>1, <2>2, <2>3
<1>4. \A i \in 1..6, j \in 1..6 : i # j => says[i] # says[j]
  OBVIOUS
<1>5. Len(items) = 6 /\ DOMAIN items = 1..6
  OBVIOUS
<1> HIDE DEF items, says
<1>6. ASSUME NEW i \in 1..6
      PROVE  /\ IsDict(items[i])
             /\ IsStr(Get(items[i], "keyword", Str("empty", 0)))
             /\ Get(items[i], "keyword", Str("empty", 0)).chars >= 3
             /\ Get(items[i], "keyword", Str("empty", 0)).says = says[i]
             /\ IsStr(Get(items[i], "intent", None))
             /\ Get(items[i], "intent", None).says
                  \in {"informational", "commercial", "navigational", "transactional"}
  <2>1. PICK chars \in 3..30, intent \in {"informational", "commercial"} :
          items[i] = Keyword(says[i], chars, intent)
    BY <1>3
  <2>2. /\ IsDict(items[i])
        /\ Get(items[i], "keyword", Str("empty", 0)) = Str(says[i], chars)
        /\ Get(items[i], "intent", None) = Str(intent, 10)
    BY <1>2, <2>1
  <2>3. chars >= 3
    OBVIOUS
  <2> QED
    BY <2>2, <2>3, Strings
<1>7. ASSUME NEW i \in 1..6, NEW j \in 1..(i - 1)
      PROVE  Get(items[i], "keyword", Str("empty", 0)).says
               # Get(items[j], "keyword", Str("empty", 0)).says
  <2>1. j \in 1..6 /\ i # j
    OBVIOUS
  <2> QED
    BY <1>4, <1>6, <2>1
<1>8. IsList(answer) /\ answer.items = items /\ answer # Invalid
  BY Lists
<1>9. Len(answer.items) >= 5
  BY <1>5, <1>8
<1> HIDE DEF answer
<1>10. CheckKeyword(answer)
  BY <1>5, <1>6, <1>7, <1>8, <1>9 DEF CheckKeyword
<1> QED
  BY <1>1, <1>8, <1>10

LEMMA OutlinePasses ==
  Raw["outline_answer"].json # Invalid /\ CheckOutline(Raw["outline_answer"].json)
<1> DEFINE sections == <<Section(11), Section(9), Section(12)>>
           entries == [h1 |-> Str("h1", 26), sections |-> List(sections)]
           answer == Dict(entries)
<1>1. Raw["outline_answer"].json = answer
  BY DEF Raw, Answer
<1>2. /\ {"h1", "sections"} \subseteq DOMAIN entries
      /\ entries["h1"] = Str("h1", 26) /\ entries["sections"] = List(sections)
  OBVIOUS
<1> HIDE DEF entries
<1>3. /\ Get(answer, "h1", Str("empty", 0)) = Str("h1", 26)
      /\ Get(answer, "sections", List(<<>>)) = List(sections)
      /\ IsDict(answer) /\ answer # Invalid
  BY <1>2, Dicts
<1> HIDE DEF answer
<1>4. \A chars \in Nat : IsDict(Section(chars))
                       /\ Get(Section(chars), "h2", Str("empty", 0)) = Str("h2", chars)
  BY DEF Section, Dict, Get, IsDict
<1>5. Len(sections) = 3 /\ DOMAIN sections = 1..3
      /\ sections[1] = Section(11) /\ sections[2] = Section(9) /\ sections[3] = Section(12)
  OBVIOUS
<1> HIDE DEF sections
<1>6. ASSUME NEW i \in DOMAIN sections
      PROVE  /\ IsDict(sections[i])
             /\ IsStr(Get(sections[i], "h2", Str("empty", 0)))
             /\ Get(sections[i], "h2", Str("empty", 0)).chars >= 3
  <2>1. i = 1 \/ i = 2 \/ i = 3
    BY <1>5
  <2>2. \E chars \in Nat : chars >= 3 /\ sections[i] = Section(chars)
    BY <1>5, <2>1
  <2> QED
    BY <1>4, <2>2, Strings
<1>7. IsList(List(sections)) /\ List(sections).items = sections
  BY Lists
<1>8. IsStr(Str("h1", 26)) /\ Str("h1", 26).chars = 26
  BY Strings
<1>9. CheckOutline(answer)
  BY <1>3, <1>5, <1>6, <1>7, <1>8 DEF CheckOutline
<1> QED
  BY <1>1, <1>3, <1>9

LEMMA DraftPasses ==
  ASSUME NEW text, text = Text(Raw["draft_answer"].words, Raw["draft_answer"].h2)
  PROVE  text # Invalid /\ CheckDraft(text)
<1>1. Raw["draft_answer"].words = 309 /\ Raw["draft_answer"].h2 = TRUE
  BY DEF Raw, Answer
<1>2. text = Text(309, TRUE)
  BY <1>1
<1>3. text # Invalid /\ IsStr(text) /\ text.words = 309
  BY <1>2 DEF Text, IsStr, Invalid
<1>4. text.words >= 300
  BY <1>3
<1>5. text.h2 = TRUE
  BY <1>2, SMT DEF Text
<1> QED
  BY <1>3, <1>4, <1>5, Zenon DEF CheckDraft

LEMMA OptimizePasses ==
  Raw["optimize_answer"].json # Invalid /\ CheckOptimize(Raw["optimize_answer"].json)
<1> DEFINE links == List(<<None, None, None>>)
           entries == [article |-> Str("article", 590), meta_description |-> Str("meta", 81),
                       internal_links |-> links]
           answer == Dict(entries)
<1>1. Raw["optimize_answer"].json = answer
  BY DEF Raw, Answer
<1>2. IsList(links)
  BY Lists
<1> HIDE DEF links
<1>3. /\ {"article", "meta_description", "internal_links"} \subseteq DOMAIN entries
      /\ entries["article"] = Str("article", 590)
      /\ entries["meta_description"] = Str("meta", 81)
      /\ entries["internal_links"] = links
  OBVIOUS
<1> HIDE DEF entries
<1>4. /\ Get(answer, "article", Str("empty", 0)) = Str("article", 590)
      /\ Get(answer, "meta_description", Str("empty", 0)) = Str("meta", 81)
      /\ Get(answer, "internal_links", List(<<>>)) = links
      /\ IsDict(answer) /\ answer # Invalid
  BY <1>3, Dicts
<1> HIDE DEF answer
<1> QED
  BY <1>1, <1>2, <1>4, Strings DEF CheckOptimize

\* What is not JSON, an empty object and a hollow answer are rejected.
LEMMA SpoiltIsRejected ==
  ASSUME NEW step \in FiveSteps,
         NEW name \in {"garbage", "braces", HallucinatedResponse[step]}
  PROVE  name \in DOMAIN Raw /\ Verdict[step][name] # "ok"
<1> DEFINE output == ParseOutput(step, name)
<1>1. /\ HallucinatedResponse["voice"] = "hollow_voice"
      /\ HallucinatedResponse["keyword"] = "hollow_keyword"
      /\ HallucinatedResponse["outline"] = "hollow_outline"
      /\ HallucinatedResponse["draft"] = "hollow_draft"
      /\ HallucinatedResponse["optimize"] = "hollow_optimize"
  BY DEF HallucinatedResponse
<1>2. name \in DOMAIN Raw
  BY <1>1, RawNames DEF FiveSteps
<1>3. /\ step = "draft" => output = Text(Raw[name].words, Raw[name].h2)
      /\ step # "draft" => output = Raw[name].json
  BY DEF ParseOutput
<1>4. /\ step = "voice" => (Postcondition(step, output) => CheckVoice(output))
      /\ step = "keyword" => (Postcondition(step, output) => CheckKeyword(output))
      /\ step = "outline" => (Postcondition(step, output) => CheckOutline(output))
      /\ step = "draft" => (Postcondition(step, output) => CheckDraft(output))
      /\ step = "optimize" => (Postcondition(step, output) => CheckOptimize(output))
  BY DEF Postcondition
<1> HIDE DEF output
<1>5. Raw["garbage"].json = Invalid /\ Raw["garbage"].words = 1
      /\ Raw["braces"].json = Dict(<<>>) /\ Raw["braces"].words = 1
  BY DEF Raw, Answer
<1>6. \A words, h2 : Text(words, h2).words = words
  BY DEF Text
<1>7. step = "voice" \/ step = "keyword" \/ step = "outline" \/ step = "draft"
        \/ step = "optimize"
  BY DEF FiveSteps
<1>8. output = Invalid \/ ~Postcondition(step, output)
  <2>1. CASE step = "draft"
    <3>1. Raw[name].words \in {1, 4}
      BY <1>1, <1>5, <2>1, HollowFacts
    <3> QED
      BY <1>3, <1>4, <1>6, <2>1, <3>1, ChecksFail
  <2>2. CASE step # "draft" /\ name = "garbage"
    BY <1>3, <1>5, <2>2
  <2>3. CASE step # "draft" /\ name = "braces"
    <3>1. output = Dict(<<>>)
      BY <1>3, <1>5, <2>3
    <3>2. ~CheckVoice(output) /\ ~CheckKeyword(output) /\ ~CheckOutline(output)
      BY <3>1, BracesFacts, ChecksFail
    <3>3. ~CheckOptimize(output)
      BY <3>1, BracesFacts, ChecksFail
    <3> QED
      BY <1>4, <1>7, <2>3, <3>2, <3>3
  <2>4. CASE step = "voice" /\ name = "hollow_voice"
    BY <1>3, <1>4, <2>4, HollowFacts, ChecksFail
  <2>5. CASE step = "keyword" /\ name = "hollow_keyword"
    BY <1>3, <1>4, <2>5, HollowFacts, ChecksFail
  <2>6. CASE step = "outline" /\ name = "hollow_outline"
    BY <1>3, <1>4, <2>6, HollowFacts, ChecksFail
  <2>7. CASE step = "optimize" /\ name = "hollow_optimize"
    <3>1. Get(output, "meta_description", Str("empty", 0)).chars = 5
      BY <1>3, <2>7, HollowFacts
    <3>2. ~CheckOptimize(output)
      BY <3>1, ChecksFail
    <3> QED
      BY <1>4, <2>7, <3>2
  <2> QED
    BY <1>1, <1>7, <2>1, <2>2, <2>3, <2>4, <2>5, <2>6, <2>7
<1>9. Verdict[step][name] = "ok" => output # Invalid /\ Postcondition(step, output)
  BY <1>2, VerdictFacts DEF output
<1> QED
  BY <1>2, <1>8, <1>9

\* The mock client's full answers are accepted.
LEMMA NormalIsAccepted ==
  ASSUME NEW step \in FiveSteps
  PROVE  NormalResponse[step] \in DOMAIN Raw /\ Verdict[step][NormalResponse[step]] = "ok"
<1> DEFINE name == NormalResponse[step]
           output == ParseOutput(step, name)
<1>1. /\ NormalResponse["voice"] = "voice_answer"
      /\ NormalResponse["keyword"] = "keyword_answer"
      /\ NormalResponse["outline"] = "outline_answer"
      /\ NormalResponse["draft"] = "draft_answer"
      /\ NormalResponse["optimize"] = "optimize_answer"
  BY DEF NormalResponse
<1>2. name \in DOMAIN Raw
  BY <1>1, RawNames DEF FiveSteps
<1>3. /\ step = "draft" => output = Text(Raw[name].words, Raw[name].h2)
      /\ step # "draft" => output = Raw[name].json
  BY DEF ParseOutput
<1>4. /\ step = "voice" => (Postcondition(step, output) <=> CheckVoice(output))
      /\ step = "keyword" => (Postcondition(step, output) <=> CheckKeyword(output))
      /\ step = "outline" => (Postcondition(step, output) <=> CheckOutline(output))
      /\ step = "draft" => (Postcondition(step, output) <=> CheckDraft(output))
      /\ step = "optimize" => (Postcondition(step, output) <=> CheckOptimize(output))
  BY DEF Postcondition
<1>5. Verdict[step][name] = "ok" <=> output # Invalid /\ Postcondition(step, output)
  BY <1>2, VerdictFacts
<1> HIDE DEF output
<1>6. CASE step = "voice"
  <2>1. output # Invalid /\ CheckVoice(output)
    BY <1>1, <1>3, <1>6, VoicePasses
  <2> QED
    BY <1>2, <1>4, <1>5, <1>6, <2>1
<1>7. CASE step = "keyword"
  <2>1. output # Invalid /\ CheckKeyword(output)
    BY <1>1, <1>3, <1>7, KeywordPasses
  <2> QED
    BY <1>2, <1>4, <1>5, <1>7, <2>1
<1>8. CASE step = "outline"
  <2>1. output # Invalid /\ CheckOutline(output)
    BY <1>1, <1>3, <1>8, OutlinePasses
  <2> QED
    BY <1>2, <1>4, <1>5, <1>8, <2>1
<1>9. CASE step = "draft"
  <2>1. output # Invalid /\ CheckDraft(output)
    BY <1>1, <1>3, <1>9, DraftPasses
  <2> QED
    BY <1>2, <1>4, <1>5, <1>9, <2>1
<1>10. CASE step = "optimize"
  <2>1. output # Invalid /\ CheckOptimize(output)
    BY <1>1, <1>3, <1>10, OptimizePasses
  <2> QED
    BY <1>2, <1>4, <1>5, <1>10, <2>1
<1> QED
  BY <1>6, <1>7, <1>8, <1>9, <1>10 DEF FiveSteps

-----------------------------------------------------------------------------
(* The answers of a client *)

\* Only the mock client and that of the harness hallucinate.
LEMMA ScenarioFacts ==
  ASSUME scenario \in Scenarios, NEW index, "hallucinate" \in FatesOf(index)
  PROVE  scenario.client \in {"mock", "chaos"}
<1>1. CASE scenario \in FailureScenarios
  <2>1. scenario.later = {"none"}
    BY <1>1 DEF FailureScenarios, Planned
  <2>2. \A i \in DOMAIN scenario.first : scenario.first[i] # "hallucinate"
    BY <1>1 DEF FailureScenarios, Planned
  <2> QED
    BY <2>1, <2>2 DEF FatesOf
<1>2. CASE scenario \in MockScenarios
  BY <1>2 DEF MockScenarios, HallucinationScenario, ZombieScenario, Planned
<1>3. CASE \E profile \in Profiles : scenario = ChaosScenario(profile)
  BY <1>3 DEF ChaosScenario
<1> QED
  BY <1>1, <1>2, <1>3 DEF Scenarios

\* A call that the client leaves alone, or only delays, gets the full answer to
\* its own prompt; a spoilt answer is one that its step rejects.
LEMMA ResponseFacts ==
  ASSUME CallsSound, scenario \in Scenarios, NEW c \in DOMAIN calls,
         NEW index, wraps[c].fate \in FatesOf(index), wraps[c].fate \notin Raising
  PROVE  /\ wraps[c].fate \in Spoiling =>
              Verdict[calls[c].step][Response(c)] # "ok"
         /\ wraps[c].fate \notin Spoiling =>
              /\ Verdict[calls[c].step][Response(c)] = "ok"
              /\ Response(c) = NormalResponse[calls[c].step]
<1> DEFINE step == calls[c].step
<1>1. step \in FiveSteps
  BY CallFacts, StepsAreFive DEF CallRecord
<1>2. Asked[step] = step
  BY <1>1, AskedOwnStep
<1>3. wraps[c].fate = "corrupt" => Response(c) = "garbage"
  BY DEF Response
<1>4. wraps[c].fate = "hallucinate" => Response(c) \in {"braces", HallucinatedResponse[step]}
  <2> HAVE wraps[c].fate = "hallucinate"
  <2>1. scenario.client = "mock" \/ scenario.client = "chaos"
    BY ScenarioFacts
  <2> QED
    BY <1>2, <2>1 DEF Response
<1>5. wraps[c].fate \notin Spoiling => Response(c) = NormalResponse[step]
  BY <1>2 DEF Response, Spoiling
<1> HIDE DEF step
<1>6. wraps[c].fate \in Spoiling =>
        Response(c) \in {"garbage", "braces", HallucinatedResponse[step]}
  BY <1>3, <1>4 DEF Spoiling
<1>7. wraps[c].fate \in Spoiling => Verdict[step][Response(c)] # "ok"
  BY <1>1, <1>6, SpoiltIsRejected
<1>8. wraps[c].fate \notin Spoiling => Verdict[step][Response(c)] = "ok"
  BY <1>1, <1>5, NormalIsAccepted
<1> QED
  BY <1>5, <1>7, <1>8 DEF step

-----------------------------------------------------------------------------
(* The one run *)

BaseInv == TypeInv /\ MemInv /\ AgentInv /\ CountInv

LEMMA BaseCorrect == InjectedSpec => []BaseInv
<1>1. InjectedInit => CountInv
  BY DEF InjectedInit, AgentInit, Init, CountInv
<1>2. TypeInv /\ AgentInv /\ CountInv /\ [InjectedNext]_injectedVars => CountInv'
  BY CountInvStep
<1>3. InjectedSpec => [](TypeInv /\ AgentInv)
  BY InjectedImplementsAgent, AgentCorrect, PTL
<1>4. InjectedSpec => [](TypeInv /\ MemInv)
  BY InjectedImplementsPipeline, MemCorrect, PTL
<1> QED
  BY <1>1, <1>2, <1>3, <1>4, PTL DEF InjectedSpec, BaseInv

\* Everything the mock client answers can be stored.
LEMMA AllStorable == \A s : Storable(s)
BY PlainTexts DEF Storable

\* The one run starts with nothing on the disk.
LEMMA OneStart ==
  ASSUME TypeInv, OneRunSoFar, Start
  PROVE  /\ runs = 0 /\ runs' = 1 /\ pc = "down" /\ disk = NoCheckpoint
         /\ log = <<>> /\ calls = <<>> /\ outcome = "none"
         /\ UNCHANGED <<calls, waiting, log, attempt>>
         /\ \E topic \in Topics : StartFresh(topic)
<1>1. MaxRuns = 1 /\ runs \in 0..1
  BY OneRun DEF TypeInv, TypeOK
<1>2. PICK topic \in Topics : Resume(topic) \/ StartFresh(topic) \/ StartFreshRaises(topic)
  BY DEF Start, Call
<1>3. runs = 0 /\ pc = "down" /\ runs' = 1
  BY <1>1, <1>2 DEF Resume, StartFresh, StartFreshRaises, BeginRun
<1>4. disk = NoCheckpoint /\ log = <<>> /\ calls = <<>> /\ outcome = "none"
  BY <1>3 DEF OneRunSoFar
<1>5. StartFresh(topic)
  BY <1>2, <1>4, AllStorable DEF Resume, StartFreshRaises
<1> QED
  BY <1>3, <1>4, <1>5 DEF Start, StartFresh

\* The steps of a run with an injecting client.
LEMMA InjectedCases ==
  ASSUME [InjectedNext]_injectedVars
  PROVE  \/ InjectedSubmit
         \/ InjectedResult
         \/ Orchestrate /\ UNCHANGED <<calls, waiting, scenario, count, wraps>>
         \/ Start /\ UNCHANGED <<calls, waiting, scenario, count, wraps>>
         \/ Die /\ UNCHANGED <<scenario, count, wraps>>
         \/ /\ \E c \in DOMAIN calls : Enter(c) \/ Wake(c) \/ Return(c)
            /\ UNCHANGED <<vars, waiting, scenario>>
         \/ UNCHANGED injectedVars
<1>1. ASSUME NEW c \in DOMAIN calls, Enter(c) \/ Wake(c) \/ Return(c)
      PROVE  UNCHANGED <<vars, waiting, scenario>>
  BY <1>1 DEF Enter, Wake, Return, ModelFails, ModelAnswers, agentVars, vars
<1> QED
  BY <1>1 DEF InjectedNext, InjectedRest, Client, Orchestrate, Start

\* What the checkpoint is made of, once there is one.
LEMMA OneRunSoFarStep ==
  ASSUME BaseInv, OneRunSoFar, [InjectedNext]_injectedVars
  PROVE  OneRunSoFar'
<1>1. CASE runs = 0
  <2>1. pc = "down" /\ calls = <<>> /\ DOMAIN calls = {} /\ waiting = 0
    BY <1>1 DEF OneRunSoFar, BaseInv, AgentInv, WaitsForOwnCall
  <2>2. CASE Start
    <3>1. PICK topic \in Topics : StartFresh(topic)
      BY <2>2, OneStart DEF BaseInv
    <3>2. disk' = NewState(topic) /\ runs' # 0
      BY <1>1, <3>1 DEF StartFresh, BeginRun
    <3>3. disk' # NoCheckpoint
      BY <3>2, NewStateFacts, NoCheckpointAssumption
    <3> QED
      BY <3>2, <3>3 DEF OneRunSoFar
  <2>3. CASE ~Start
    <3>1. UNCHANGED injectedVars
      BY <2>1, <2>3, InjectedCases
         DEF InjectedSubmit, Submit, InjectedResult, TakeAnswer, RejectAnswer, Reraise, TimesOut,
             Orchestrate, Run, LogPipelineStarted, StartAttempt, Complete, GuardrailBlocks,
             SaveBlocked, AttemptFails, LogFallback, Retry, GiveUp, AttemptSucceeds,
             SaveCheckpoint, SaveRaises, LogCheckpointWritten, Die, Crash
    <3> QED
      BY <3>1 DEF injectedVars, OneRunSoFar
  <2> QED
    BY <2>2, <2>3
<1>2. CASE runs # 0
  <2>1. disk # NoCheckpoint
    BY <1>2 DEF OneRunSoFar
  <2>2. [Next]_vars
    BY InjectedStep, AgentStep DEF BaseInv, AgentInv
  <2>3. runs' # 0
    <3>1. runs \in 0..MaxRuns
      BY DEF BaseInv, TypeInv, TypeOK
    <3>2. runs' = runs \/ runs' = runs + 1
      BY <2>2 DEF Next, Run, Call, vars, Resume, StartFresh, StartFreshRaises, BeginRun,
         LogPipelineStarted, StartAttempt, Complete, GuardrailBlocks, SaveBlocked, AttemptFails,
         LogFallback, Retry, GiveUp, AttemptSucceeds, SaveCheckpoint, SaveRaises,
         LogCheckpointWritten, Crash
    <3> QED
      BY <1>2, <3>1, <3>2
  <2>4. disk' # NoCheckpoint
    <3>1. \/ disk' = disk
          \/ pc = "blocked" /\ disk' = state
          \/ pc = "save" /\ disk' = state
      BY <2>1, <2>2, DiskSteps
    <3> QED
      BY <2>1, <3>1, RunFacts DEF BaseInv, Running
  <2> QED
    BY <2>3, <2>4 DEF OneRunSoFar
<1> QED
  BY <1>1, <1>2

-----------------------------------------------------------------------------
(* The plan *)

\* What is known of a call stays known while neither its fate nor its answer
\* changes.
LEMMA StaysPlanned ==
  ASSUME NEW c, CallAsPlanned(c), scenario' = scenario, wraps'[c] = wraps[c],
         calls'[c].step = calls[c].step, calls'[c].result = calls[c].result,
         calls'[c].status = calls[c].status \/ calls'[c].status = "dead"
  PROVE  CallAsPlanned(c)'
<1>1. \A index : FatesOf(index)' = FatesOf(index)
  BY DEF FatesOf
<1>2. Response(c)' = Response(c)
  BY DEF Response
<1> QED
  BY <1>1, <1>2 DEF CallAsPlanned

\* A worker or the client's counter moves one call at a time.
LEMMA ClientPlanned ==
  ASSUME BaseInv, CallsAsPlanned, NEW c \in DOMAIN calls, Enter(c) \/ Wake(c) \/ Return(c),
         UNCHANGED <<vars, waiting, scenario>>
  PROVE  CallsAsPlanned'
<1>1. /\ wraps \in Seq(WrapRecord) /\ DOMAIN wraps = DOMAIN calls /\ wraps[c] \in WrapRecord
      /\ Len(wraps) = Len(calls) /\ Len(calls) \in Nat /\ calls[c] \in CallRecord
  BY CallFacts DEF BaseInv, AgentInv, CallsSound, CountInv
<1>2. \A index : FatesOf(index)' = FatesOf(index)
  BY DEF FatesOf
<1>3. CallAsPlanned(c)
  BY <1>1 DEF CallsAsPlanned
<1>4. CASE Enter(c)
  <2>1. PICK fate \in FatesOf(count + 1) :
          wraps' = [wraps EXCEPT ![c] =
                      [index |-> count + 1, fate |-> fate,
                       at |-> IF fate \in Sleeping THEN "asleep" ELSE "awake"]]
    BY <1>4 DEF Enter
  <2>2. count + 1 = c /\ calls[c].status = "calling" /\ calls' = calls
    BY <1>1, <1>4 DEF Enter, BaseInv, CountInv, IsNew, agentVars
  <2>3. /\ wraps'[c].index = c /\ wraps'[c].fate = fate
        /\ wraps'[c].at = "asleep" => fate \in Sleeping
        /\ DOMAIN wraps' = DOMAIN wraps
        /\ \A d \in DOMAIN wraps : d # c => wraps'[d] = wraps[d]
    BY <1>1, <2>1, <2>2
  <2>4. CallAsPlanned(c)'
    BY <1>2, <2>1, <2>2, <2>3 DEF CallAsPlanned
  <2>5. ASSUME NEW d \in DOMAIN wraps, d # c PROVE CallAsPlanned(d)'
    BY <2>2, <2>3, <2>5, StaysPlanned DEF CallsAsPlanned
  <2> QED
    BY <2>3, <2>4, <2>5 DEF CallsAsPlanned
<1>5. CASE Wake(c)
  <2> DEFINE new == [wraps[c] EXCEPT !.at = "awake"]
  <2>1. wraps' = [wraps EXCEPT ![c] = new]
    BY <1>5, Zenon DEF Wake
  <2>2. new.index = wraps[c].index /\ new.fate = wraps[c].fate /\ new.at = "awake"
    BY <1>1 DEF WrapRecord
  <2>3. calls[c].status = "calling" /\ calls' = calls /\ wraps[c].at # "new"
    BY <1>5 DEF Wake, agentVars
  <2> HIDE DEF new
  <2>4. /\ wraps'[c] = new /\ DOMAIN wraps' = DOMAIN wraps
        /\ \A d \in DOMAIN wraps : d # c => wraps'[d] = wraps[d]
    BY <1>1, <2>1
  <2>5. CallAsPlanned(c)'
    BY <1>2, <1>3, <2>2, <2>3, <2>4 DEF CallAsPlanned
  <2>6. ASSUME NEW d \in DOMAIN wraps, d # c PROVE CallAsPlanned(d)'
    BY <2>3, <2>4, <2>6, StaysPlanned DEF CallsAsPlanned
  <2> QED
    BY <2>4, <2>5, <2>6 DEF CallsAsPlanned
<1>6. CASE Return(c)
  <2>1. UNCHANGED wraps /\ wraps[c].at = "awake"
    BY <1>6 DEF Return
  <2>2. \/ /\ wraps[c].fate \in Raising
           /\ \E error : Finish(c, "raised", error)
        \/ /\ wraps[c].fate \notin Raising
           /\ Finish(c, "answered", Response(c))
    BY <1>6, NoFailover DEF Return, ModelFails, ModelAnswers
  <2>3. PICK status, result :
          /\ Finish(c, status, result)
          /\ \/ wraps[c].fate \in Raising /\ status = "raised"
             \/ wraps[c].fate \notin Raising /\ status = "answered" /\ result = Response(c)
    BY <2>2
  <2> DEFINE new == [calls[c] EXCEPT !.status = status, !.result = result]
  <2>4. calls' = [calls EXCEPT ![c] = new]
    BY <2>3, Zenon DEF Finish
  <2>5. new.status = status /\ new.result = result /\ new.step = calls[c].step
    BY <1>1 DEF CallRecord
  <2> HIDE DEF new
  <2>6. /\ calls'[c] = new
        /\ \A d \in DOMAIN wraps : d # c => calls'[d] = calls[d]
    BY <1>1, <2>4
  <2>7. Response(c)' = Response(c)
    BY <2>1, <2>5, <2>6 DEF Response
  <2>8. CallAsPlanned(c)'
    BY <1>2, <1>3, <2>1, <2>3, <2>5, <2>6, <2>7 DEF CallAsPlanned
  <2>9. ASSUME NEW d \in DOMAIN wraps, d # c PROVE CallAsPlanned(d)'
    BY <2>1, <2>6, <2>9, StaysPlanned DEF CallsAsPlanned
  <2> QED
    BY <2>1, <2>8, <2>9 DEF CallsAsPlanned
<1> QED
  BY <1>4, <1>5, <1>6

LEMMA CallsPlannedStep ==
  ASSUME BaseInv, CallsAsPlanned, [InjectedNext]_injectedVars
  PROVE  CallsAsPlanned'
<1>1. DOMAIN wraps = DOMAIN calls
  BY DEF BaseInv, AgentInv, CallsSound, CountInv
<1>2. CASE UNCHANGED <<calls, scenario, wraps>>
  BY <1>2, StaysPlanned DEF CallsAsPlanned
<1>3. CASE InjectedSubmit
  <2>1. /\ wraps' = Append(wraps, NewWrap) /\ scenario' = scenario
        /\ wraps \in Seq(WrapRecord) /\ Len(wraps) = Len(calls) /\ Len(wraps) \in Nat
    BY <1>3 DEF InjectedSubmit, BaseInv, CountInv, AgentInv, CallsSound
  <2>2. /\ DOMAIN wraps' = DOMAIN wraps \cup {Len(calls) + 1}
        /\ wraps'[Len(calls) + 1] = NewWrap
        /\ \A c \in DOMAIN wraps : wraps'[c] = wraps[c]
    BY <2>1
  <2>3. /\ calls'[Len(calls) + 1].status = "calling"
        /\ \A c \in DOMAIN calls : calls'[c] = calls[c]
    BY <1>3 DEF InjectedSubmit, Submit, BaseInv, AgentInv, CallsSound
  <2>4. NewWrap.at = "new"
    BY DEF NewWrap
  <2>5. ASSUME NEW c \in DOMAIN wraps PROVE CallAsPlanned(c)'
    BY <1>1, <2>1, <2>2, <2>3, StaysPlanned DEF CallsAsPlanned
  <2>6. ASSUME NEW c, c = Len(calls) + 1 PROVE CallAsPlanned(c)'
    BY <2>2, <2>3, <2>4, <2>6 DEF CallAsPlanned
  <2> QED
    BY <2>2, <2>5, <2>6 DEF CallsAsPlanned
<1>4. CASE Die /\ UNCHANGED <<scenario, wraps>>
  <2> DEFINE dead(c) == [calls[c] EXCEPT !.status = "dead"]
  <2>1. \A c \in DOMAIN calls : calls'[c] = dead(c) \/ calls'[c] = calls[c]
    BY <1>4 DEF Die
  <2>2. ASSUME NEW c \in DOMAIN calls
        PROVE  /\ dead(c).status = "dead" /\ dead(c).step = calls[c].step
               /\ dead(c).result = calls[c].result
    BY CallFacts DEF CallRecord, BaseInv, AgentInv
  <2> HIDE DEF dead
  <2> QED
    BY <1>1, <1>4, <2>1, <2>2, StaysPlanned DEF CallsAsPlanned
<1>5. CASE (\E c \in DOMAIN calls : Enter(c) \/ Wake(c) \/ Return(c))
             /\ UNCHANGED <<vars, waiting, scenario>>
  BY <1>5, ClientPlanned
<1>6. InjectedResult => UNCHANGED <<calls, scenario, wraps>>
  BY DEF InjectedResult, TakeAnswer, RejectAnswer, Reraise, TimesOut
<1>7. UNCHANGED injectedVars => UNCHANGED <<calls, scenario, wraps>>
  BY DEF injectedVars
<1> QED
  BY <1>2, <1>3, <1>4, <1>5, <1>6, <1>7, InjectedCases

\* What the main thread does between two calls of a client.
LEMMA OrchestrateCases ==
  ASSUME Orchestrate
  PROVE  \/ LogPipelineStarted \/ StartAttempt \/ Complete \/ GuardrailBlocks \/ SaveBlocked
         \/ LogFallback \/ Retry \/ GiveUp \/ SaveCheckpoint \/ LogCheckpointWritten
BY AllStorable DEF Orchestrate, Run, AttemptFails, AttemptSucceeds, SaveRaises

\* An attempt succeeds with the full answer to its own prompt, from a call that
\* was left alone or only delayed; if it fails, something was done to its call.
LEMMA ResultFacts ==
  ASSUME BaseInv, CallsAsPlanned, InjectedResult
  PROVE  /\ pc = "call" /\ waiting \in DOMAIN wraps /\ waiting \in Nat /\ waiting # 0
         /\ waiting' = 0 /\ UNCHANGED <<calls, scenario, count, wraps>>
         /\ wraps[waiting].at # "new" /\ wraps[waiting].fate \in FatesOf(waiting)
         /\ \/ /\ wraps[waiting].fate \in Sleeping \cup {"none"}
               /\ calls[waiting].result = NormalResponse[Step(state)]
               /\ calls[waiting].result \in Payloads
               /\ AttemptSucceeds(calls[waiting].result)
            \/ /\ wraps[waiting].fate # "none"
               /\ \E error \in Errors : AttemptFails(error)
<1> DEFINE fate == wraps[waiting].fate
           step == calls[waiting].step
<1>1. /\ waiting # 0 /\ waiting' = 0
      /\ pc = "call" /\ UNCHANGED <<calls, scenario, count, wraps>>
  BY DEF InjectedResult, TakeAnswer, RejectAnswer, Reraise, TimesOut, AttemptSucceeds, AttemptFails
<1>2. /\ waiting \in DOMAIN wraps /\ waiting \in DOMAIN calls /\ waiting \in Nat
      /\ CallsSound /\ scenario \in Scenarios /\ step = Step(state)
      /\ wraps[waiting] \in WrapRecord
  BY <1>1 DEF BaseInv, AgentInv, CountInv, CallsSound, WaitsForOwnCall
<1>3. wraps[waiting].at # "new"
  BY <1>1, <1>2 DEF InjectedResult, TakeAnswer, RejectAnswer, Reraise, TimesOut, BaseInv,
     CountInv, IsNew
<1>4. fate \in FatesOf(waiting) /\ CallAsPlanned(waiting)
  BY <1>2, <1>3 DEF CallsAsPlanned, CallAsPlanned
<1>5. fate \in Fates
  BY <1>2 DEF WrapRecord
<1>6. "none" \notin Raising /\ "none" \notin Sleeping /\ "none" \notin Spoiling
  BY DEF Raising, ScenarioToExc, Sleeping, Spoiling
<1>7. calls[waiting].status = "answered" =>
        /\ calls[waiting].result \in Payloads
        /\ fate \notin Raising
        /\ fate \in Spoiling => Judgement # "ok"
        /\ fate \notin Spoiling =>
             Judgement = "ok" /\ calls[waiting].result = NormalResponse[Step(state)]
  <2> HAVE calls[waiting].status = "answered"
  <2>1. fate \notin Raising /\ calls[waiting].result = Response(waiting)
    BY <1>4 DEF CallAsPlanned
  <2>2. Judgement = Verdict[step][Response(waiting)]
    BY <1>2, <2>1 DEF Judgement
  <2>3. calls[waiting].result \in Payloads
    BY <1>2, CallFacts
  <2> QED
    BY <1>2, <1>4, <2>1, <2>2, <2>3, ResponseFacts
<1>8. CASE TakeAnswer /\ Judgement = "ok"
  <2>1. calls[waiting].status = "answered" /\ AttemptSucceeds(calls[waiting].result)
    BY <1>8 DEF TakeAnswer
  <2>2. fate \in Sleeping \cup {"none"}
    BY <1>5, <1>7, <1>8, <2>1 DEF Fates
  <2> QED
    BY <1>1, <1>2, <1>3, <1>4, <1>6, <1>7, <1>8, <2>1, <2>2
<1>9. CASE RejectAnswer /\ Judgement = LastError(state')
  <2>1. PICK error \in CheckErrors : AttemptFails(error)
    BY <1>9 DEF RejectAnswer
  <2>2. state \in PipelineState /\ state.current_step < N
    BY <1>1, RunFacts DEF BaseInv, Running, TypeInv, StepRemains
  <2>3. error \in Errors
    BY AgentAssumption
  <2>4. LastError(state') = error
    <3> DEFINE failure == [step |-> Step(state), error |-> error]
    <3>1. state' = MarkStepFailed(state, Step(state), error)
      BY <2>1 DEF AttemptFails, EmitFailure
    <3>2. state'.failed_attempts = Append(state.failed_attempts, failure)
      BY <2>2, <3>1 DEF MarkStepFailed, PipelineState
    <3>3. state.failed_attempts \in Seq(Failure)
      BY <2>2 DEF PipelineState
    <3>4. failure.error = error
      OBVIOUS
    <3> HIDE DEF failure
    <3>5. state'.failed_attempts[Len(state'.failed_attempts)] = failure
      BY <3>2, <3>3
    <3> QED
      BY <3>4, <3>5 DEF LastError
  <2>5. Judgement # "ok" /\ calls[waiting].status = "answered"
    BY <1>9, <2>4, InjectedErrors DEF RejectAnswer
  <2>6. fate # "none"
    BY <1>6, <1>7, <2>5
  <2> QED
    BY <1>1, <1>2, <1>3, <1>4, <2>1, <2>3, <2>6
<1>10. CASE Reraise
  <2>1. fate \in Raising /\ calls[waiting].result \in Errors
    BY <1>2, <1>4, <1>10, CallFacts DEF Reraise, CallAsPlanned
  <2>2. AttemptFails(calls[waiting].result)
    BY <1>10 DEF Reraise
  <2> QED
    BY <1>1, <1>2, <1>3, <1>4, <1>6, <2>1, <2>2
<1>11. CASE TimesOut /\ wraps[waiting].at = "asleep"
  <2>1. fate \in Sleeping
    BY <1>4, <1>11 DEF CallAsPlanned
  <2>2. AttemptFails("ZombieStepDetected") /\ "ZombieStepDetected" \in Errors
    BY <1>11, AgentAssumption DEF TimesOut
  <2> QED
    BY <1>1, <1>2, <1>3, <1>4, <1>6, <2>1, <2>2
<1> QED
  BY <1>8, <1>9, <1>10, <1>11 DEF InjectedResult

\* A line counts for its own type.
LEMMA WrittenCounts ==
  ASSUME log \in Seq(Event), NEW type, NEW step, Writes(type, step), NEW counted
  PROVE  /\ Cardinality(Logged(counted)) \in Nat
         /\ Cardinality(Logged(counted)')
              = Cardinality(Logged(counted)) + (IF counted = type THEN 1 ELSE 0)
         /\ Logged(counted)' = IF counted = type THEN Logged(counted) \cup {Len(log) + 1}
                               ELSE Logged(counted)
         /\ Len(log') = Len(log) + 1
         /\ log'[Len(log) + 1].type = type
         /\ \A i \in 1..Len(log) : log'[i] = log[i]
<1>1. PICK event \in Event : event.type = type /\ log' = Append(log, event)
  BY DEF Writes
<1> QED
  BY <1>1, CountLogged, LoggedFacts, AppendFacts

LEMMA SameLog ==
  ASSUME log' = log, NEW type
  PROVE  Logged(type)' = Logged(type)
BY DEF Logged

\* Waiting or about to call, the main thread has announced as many attempts as
\* there are calls, this one included.
LEMMA StartsStep ==
  ASSUME BaseInv, BaseInv', OneRunSoFar, CallsAsPlanned, StartsAreCalls,
         [InjectedNext]_injectedVars
  PROVE  StartsAreCalls'
<1> DEFINE starts == Cardinality(Logged("StepStarted"))
<1>1. /\ TypeInv /\ MemInv /\ log \in Seq(Event) /\ Len(log) \in Nat /\ Len(calls) \in Nat
      /\ starts \in Nat /\ (waiting # 0 => pc = "call")
  <2>1. log \in Seq(Event) /\ Len(log) \in Nat /\ Logged("StepStarted") \in SUBSET (1..Len(log))
    BY DEF BaseInv, TypeInv, TypeOK, Logged
  <2>2. starts \in Nat
    BY <2>1, CountFacts
  <2> QED
    BY <2>1, <2>2 DEF BaseInv, AgentInv, CallsSound, WaitsForOwnCall
<1>2. ASSUME NEW type, NEW step, Writes(type, step)
      PROVE  /\ type # "StepStarted" => starts' = starts
             /\ type = "StepStarted" => /\ starts' = starts + 1
                                        /\ Len(log') \in Logged("StepStarted")'
  BY <1>1, <1>2, WrittenCounts
<1>3. log' = log => starts' = starts
  BY SameLog
<1>4. /\ waiting # 0 => waiting = Len(calls)
      /\ pc \notin {"down", "blocked", "call"} => starts = Len(calls)
      /\ pc = "call" => /\ Len(log) \in Logged("StepStarted")
                        /\ starts = Len(calls) + (IF waiting = 0 THEN 1 ELSE 0)
  BY DEF StartsAreCalls
<1>5. SUFFICES
        /\ waiting' # 0 => waiting' = Len(calls')
        /\ pc' \notin {"down", "blocked", "call"} => starts' = Len(calls')
        /\ pc' = "call" => /\ Len(log') \in Logged("StepStarted")'
                           /\ starts' = Len(calls') + (IF waiting' = 0 THEN 1 ELSE 0)
  BY DEF StartsAreCalls
<1> HIDE DEF starts
<1>6. CASE InjectedSubmit
  <2>1. /\ pc = "call" /\ waiting = 0 /\ UNCHANGED <<pc, log>>
        /\ Len(calls') = Len(calls) + 1 /\ waiting' = Len(calls')
    BY <1>6, <1>1, SubmitFacts DEF InjectedSubmit, Submit, vars, BaseInv, AgentInv
  <2>2. Len(log') \in Logged("StepStarted")'
    BY <1>4, <2>1, SameLog
  <2> QED
    BY <1>1, <1>3, <1>4, <2>1, <2>2
<1>7. CASE InjectedResult
  <2>1. pc = "call" /\ waiting # 0 /\ waiting' = 0 /\ calls' = calls
    BY <1>7, ResultFacts
  <2>2. \/ AttemptSucceeds(calls[waiting].result) /\ calls[waiting].result \in Payloads
        \/ \E error \in Errors : AttemptFails(error)
    BY <1>7, ResultFacts
  <2>3. Writes("StepSucceeded", Step(state)) \/ Writes("StepFailed", Step(state))
    BY <1>1, <2>2, LinesWritten
  <2>4. pc' \in {"save", "fallback", "failed"}
    BY <2>2 DEF AttemptSucceeds, AttemptFails, Goto
  <2>5. starts' = starts
    BY <1>2, <2>3
  <2> QED
    BY <1>4, <2>1, <2>4, <2>5
<1>8. CASE Orchestrate /\ UNCHANGED <<calls, waiting>>
  <2>1. CASE LogPipelineStarted \/ LogFallback \/ LogCheckpointWritten
    <3>1. starts' = starts
      BY <1>1, <1>2, <2>1, LinesWritten
    <3>2. pc \in {"fresh", "fallback", "saved"} /\ pc' \in {"loop", "failed"}
      BY <2>1 DEF LogPipelineStarted, LogFallback, LogCheckpointWritten, Goto
    <3> QED
      BY <1>4, <1>8, <3>1, <3>2
  <2>2. CASE StartAttempt
    <3>1. starts' = starts + 1 /\ Len(log') \in Logged("StepStarted")'
      BY <1>1, <1>2, <2>2, LinesWritten
    <3>2. pc = "loop" /\ pc' = "call"
      BY <2>2 DEF StartAttempt, Goto
    <3> QED
      BY <1>1, <1>4, <1>8, <3>1, <3>2
  <2>3. CASE Complete \/ GuardrailBlocks \/ SaveBlocked \/ GiveUp
    <3>1. pc' \in {"down", "blocked"}
      BY <2>3 DEF Complete, GuardrailBlocks, SaveBlocked, GiveUp, Goto, Stop
    <3> QED
      BY <1>4, <1>8, <3>1
  <2>4. CASE Retry \/ SaveCheckpoint
    <3>1. log' = log /\ pc \in {"failed", "save"} /\ pc' \in {"loop", "saved"}
      BY <2>4 DEF Retry, SaveCheckpoint, Goto
    <3> QED
      BY <1>3, <1>4, <1>8, <3>1
  <2> QED
    BY <1>8, <2>1, <2>2, <2>3, <2>4, OrchestrateCases
<1>9. CASE Start /\ UNCHANGED <<calls, waiting>>
  <2>1. /\ pc = "down" /\ log = <<>> /\ calls = <<>> /\ log' = log
        /\ \E topic \in Topics : StartFresh(topic)
    BY <1>1, <1>9, OneStart
  <2>2. pc' = "fresh"
    BY <2>1 DEF StartFresh
  <2>3. Logged("StepStarted") = {}
    BY <2>1 DEF Logged
  <2>4. starts = 0
    BY <2>3, FS_EmptySet, Zenon DEF starts
  <2> QED
    BY <1>1, <1>3, <1>4, <1>9, <2>1, <2>2, <2>4
<1>10. CASE Die
  <2>1. pc' = "down" /\ waiting' = 0
    BY <1>10 DEF Die, Crash, Stop
  <2> QED
    BY <2>1
<1>11. CASE (\E c \in DOMAIN calls : Enter(c) \/ Wake(c) \/ Return(c))
              /\ UNCHANGED <<vars, waiting, scenario>>
  <2>1. Len(calls') = Len(calls)
    <3>1. PICK c \in DOMAIN calls : Enter(c) \/ Wake(c) \/ Return(c)
      BY <1>11
    <3>2. calls' = calls \/ \E new : calls' = [calls EXCEPT ![c] = new]
      BY <3>1 DEF Enter, Wake, Return, ModelAnswers, ModelFails, Finish, agentVars
    <3>3. calls \in Seq(CallRecord) /\ DOMAIN calls' = DOMAIN calls
      BY <3>2 DEF BaseInv, AgentInv, CallsSound
    <3>4. calls' \in Seq(CallRecord)
      BY DEF BaseInv, AgentInv, CallsSound
    <3> QED
      BY <3>3, <3>4
  <2>2. UNCHANGED <<pc, log, waiting>> /\ Logged("StepStarted")' = Logged("StepStarted")
    BY <1>11, SameLog DEF vars
  <2> QED
    BY <1>3, <1>4, <2>1, <2>2
<1>12. CASE UNCHANGED injectedVars
  <2>1. UNCHANGED <<pc, log, waiting, calls>> /\ Logged("StepStarted")' = Logged("StepStarted")
    BY <1>12, SameLog DEF injectedVars
  <2> QED
    BY <1>3, <1>4, <2>1
<1> QED
  BY <1>6, <1>7, <1>8, <1>9, <1>10, <1>11, <1>12, InjectedCases

\* The attempt announced last is the call of that number.
LEMMA PlanDecidesStep ==
  ASSUME BaseInv, OneRunSoFar, CallsAsPlanned, StartsAreCalls, PlanDecides,
         [InjectedNext]_injectedVars
  PROVE  PlanDecides'
<1>1. TypeInv /\ MemInv /\ log \in Seq(Event) /\ Len(log) \in Nat
  BY DEF BaseInv, TypeInv, TypeOK
<1>2. \A index : FatesOf(index)' = FatesOf(index)
  BY InjectedCases DEF FatesOf, InjectedSubmit, InjectedResult, injectedVars
<1>3. ASSUME log' = log PROVE PlanDecides'
  <2>1. \A i : Nth(i)' = Nth(i)
    BY <1>3, SameLog DEF Nth
  <2> QED
    BY <1>2, <1>3, <2>1, SameLog DEF PlanDecides
<1>4. ASSUME NEW type, NEW step, Writes(type, step),
             type = "StepSucceeded" /\ Len(log) \in Logged("StepStarted") =>
               FatesOf(Nth(Len(log))) \cap (Sleeping \cup {"none"}) # {},
             type = "StepFailed" /\ Len(log) \in Logged("StepStarted") =>
               FatesOf(Nth(Len(log))) # {"none"}
      PROVE  PlanDecides'
  <2>1. /\ Len(log') = Len(log) + 1 /\ log'[Len(log) + 1].type = type
        /\ \A i \in 1..Len(log) : log'[i] = log[i]
        /\ \A i \in 1..Len(log) : i \in Logged("StepStarted")' <=> i \in Logged("StepStarted")
        /\ \A i \in Logged("StepStarted")' : i \in 1..(Len(log) + 1)
    <3>1. /\ Len(log') = Len(log) + 1 /\ log'[Len(log) + 1].type = type
          /\ \A i \in 1..Len(log) : log'[i] = log[i]
      BY <1>1, <1>4, WrittenCounts
    <3> QED
      BY <1>1, <3>1 DEF Logged
  <2>2. ASSUME NEW i \in 1..Len(log) PROVE Nth(i)' = Nth(i)
    <3>1. {j \in Logged("StepStarted")' : j <= i} = {j \in Logged("StepStarted") : j <= i}
      <4>1. \A j \in Logged("StepStarted") : j \in 1..Len(log)
        BY DEF Logged
      <4>2. \A j \in 1..(Len(log) + 1) : j <= i => j \in 1..Len(log)
        BY <1>1
      <4> QED
        BY <2>1, <4>1, <4>2
    <3> QED
      BY <3>1 DEF Nth
  <2>3. ASSUME NEW i \in Logged("StepStarted")', i < Len(log')
        PROVE  /\ log'[i + 1].type = "StepSucceeded" =>
                    FatesOf(Nth(i)') \cap (Sleeping \cup {"none"}) # {}
               /\ log'[i + 1].type = "StepFailed" => FatesOf(Nth(i)') # {"none"}
    <3>1. i \in 1..Len(log) /\ i \in Logged("StepStarted") /\ Nth(i)' = Nth(i)
      BY <1>1, <2>1, <2>2, <2>3
    <3>2. CASE i < Len(log)
      <4>1. i + 1 \in 1..Len(log) /\ log'[i + 1] = log[i + 1]
        BY <1>1, <2>1, <3>1, <3>2
      <4> QED
        BY <3>1, <3>2, <4>1 DEF PlanDecides
    <3>3. CASE i = Len(log)
      BY <1>4, <2>1, <3>1, <3>3
    <3> QED
      BY <1>1, <3>1, <3>2, <3>3
  <2> QED
    BY <1>2, <2>3 DEF PlanDecides
<1>5. CASE InjectedResult
  <2>1. /\ pc = "call" /\ waiting # 0 /\ waiting \in Nat
        /\ wraps[waiting].fate \in FatesOf(waiting)
        /\ \/ /\ wraps[waiting].fate \in Sleeping \cup {"none"}
              /\ calls[waiting].result \in Payloads /\ AttemptSucceeds(calls[waiting].result)
           \/ wraps[waiting].fate # "none" /\ \E error \in Errors : AttemptFails(error)
    BY <1>5, ResultFacts
  <2>2. Nth(Len(log)) = waiting
    <3>1. Cardinality(Logged("StepStarted")) = Len(calls) /\ waiting = Len(calls)
      BY <2>1 DEF StartsAreCalls, BaseInv, AgentInv, CallsSound
    <3>2. {j \in Logged("StepStarted") : j <= Len(log)} = Logged("StepStarted")
      BY <1>1 DEF Logged
    <3> QED
      BY <3>1, <3>2 DEF Nth
  <2>3. CASE AttemptSucceeds(calls[waiting].result) /\ calls[waiting].result \in Payloads
               /\ wraps[waiting].fate \in Sleeping \cup {"none"}
    <3>1. Writes("StepSucceeded", Step(state))
      BY <1>1, <2>3, LinesWritten
    <3> QED
      BY <1>4, <2>1, <2>2, <2>3, <3>1
  <2>4. CASE wraps[waiting].fate # "none" /\ \E error \in Errors : AttemptFails(error)
    <3>1. Writes("StepFailed", Step(state))
      BY <1>1, <2>4, LinesWritten
    <3> QED
      BY <1>4, <2>1, <2>2, <2>4, <3>1
  <2> QED
    BY <2>1, <2>3, <2>4
<1>6. CASE Orchestrate
  <2>1. CASE Retry \/ GiveUp \/ SaveBlocked \/ SaveCheckpoint
    BY <1>3, <2>1 DEF Retry, GiveUp, SaveBlocked, SaveCheckpoint
  <2>2. CASE ~(Retry \/ GiveUp \/ SaveBlocked \/ SaveCheckpoint)
    <3>1. \E type \in EventTypes \ {"StepSucceeded", "StepFailed"} : \E step : Writes(type, step)
      BY <1>1, <1>6, <2>2, OrchestrateCases, LinesWritten DEF EventTypes
    <3> QED
      BY <1>4, <3>1
  <2> QED
    BY <2>1, <2>2
<1>7. CASE Start
  BY <1>1, <1>3, <1>7, OneStart
<1>8. CASE InjectedSubmit \/ Die \/ UNCHANGED vars
  BY <1>3, <1>8 DEF InjectedSubmit, Submit, Die, Crash, vars
<1> QED
  BY <1>5, <1>6, <1>7, <1>8, InjectedCases DEF injectedVars, vars

LEMMA PlanInvInit == InjectedInit => OneRunSoFar /\ PlanInv
<1> SUFFICES ASSUME InjectedInit PROVE OneRunSoFar /\ PlanInv
  OBVIOUS
<1>1. /\ log = <<>> /\ calls = <<>> /\ wraps = <<>> /\ pc = "down" /\ waiting = 0
      /\ outcome = "none" /\ disk = NoCheckpoint /\ runs = 0
  BY DEF InjectedInit, AgentInit, Init
<1>2. Logged("StepStarted") = {}
  BY <1>1 DEF Logged
<1> QED
  BY <1>1, <1>2 DEF OneRunSoFar, PlanInv, CallsAsPlanned, StartsAreCalls, PlanDecides

LEMMA PlanCorrect == InjectedSpec => [](BaseInv /\ OneRunSoFar /\ PlanInv)
<1>1. BaseInv /\ BaseInv' /\ OneRunSoFar /\ PlanInv /\ [InjectedNext]_injectedVars
        => OneRunSoFar' /\ PlanInv'
  BY OneRunSoFarStep, CallsPlannedStep, StartsStep, PlanDecidesStep DEF PlanInv
<1> QED
  BY <1>1, PlanInvInit, BaseCorrect, PTL DEF InjectedSpec

\* "scenario N always fails at the same call, every time" (injector.py): the
\* n-th attempt ends as the plan has it for call n, for every scenario.
THEOREM PlanAlwaysDecides == InjectedSpec => []PlanDecides
<1>1. PlanInv => PlanDecides
  BY DEF PlanInv
<1> QED
  BY <1>1, PlanCorrect, PTL

-----------------------------------------------------------------------------
(* The outputs *)

\* The topic is no output of a step, and a failure is none either.
LEMMA ProperKept ==
  ASSUME NEW s \in PipelineState, Proper(s), NEW t,
         t.current_step = s.current_step,
         \A key \in Keys \ {"topic"} : t.outputs[key] = s.outputs[key]
  PROVE  Proper(t)
<1>1. \A i \in 1..s.current_step : PIPELINE_STEPS[i] \in Keys \ {"topic"}
  <2>1. s.current_step \in 0..N
    BY DEF PipelineState
  <2> QED
    BY <2>1, StepFacts
<1> QED
  BY <1>1 DEF Proper

\* A full answer to the step that is due keeps the outputs full answers.
LEMMA ProperGrows ==
  ASSUME NEW s \in PipelineState, Proper(s), s.current_step < N,
         NEW output \in Payloads, output = NormalResponse[Step(s)]
  PROVE  Proper(MarkStepDone(s, Step(s), output))
<1> DEFINE t == MarkStepDone(s, Step(s), output)
<1>1. s.current_step \in 0..N /\ N \in Nat /\ s.current_step + 1 \in 1..N
  BY StepFacts DEF PipelineState
<1>2. /\ t.current_step = s.current_step + 1
      /\ \A key \in Keys \ {Step(s)} : t.outputs[key] = s.outputs[key]
      /\ t.outputs[Step(s)] = output
  BY MarkStepDoneFacts
<1> HIDE DEF t
<1>3. ASSUME NEW i \in 1..(s.current_step + 1)
      PROVE  t.outputs[PIPELINE_STEPS[i]] = NormalResponse[PIPELINE_STEPS[i]]
  <2>1. CASE i = s.current_step + 1
    BY <1>2, <2>1 DEF Step
  <2>2. CASE i # s.current_step + 1
    <3>1. i \in 1..s.current_step /\ i \in 1..N
      BY <1>1, <2>2
    <3>2. PIPELINE_STEPS[i] \in Keys \ {Step(s)}
      BY <1>1, <2>2, <3>1, StepFacts DEF Step
    <3> QED
      BY <1>2, <3>1, <3>2 DEF Proper
  <2> QED
    BY <2>1, <2>2
<1>4. Proper(t)
  BY <1>2, <1>3 DEF Proper
<1> QED
  BY <1>4 DEF t

LEMMA ProperStep ==
  ASSUME BaseInv, OneRunSoFar, CallsAsPlanned, ProperInv, [InjectedNext]_injectedVars
  PROVE  ProperInv'
<1>1. TypeInv /\ MemInv
  BY DEF BaseInv
<1>2. Running => state \in PipelineState /\ disk # NoCheckpoint /\ Proper(state) /\ Proper(disk)
  BY <1>1, RunFacts DEF ProperInv
<1>3. CASE InjectedResult
  <2>1. /\ pc = "call"
        /\ \/ /\ calls[waiting].result = NormalResponse[Step(state)]
              /\ calls[waiting].result \in Payloads
              /\ AttemptSucceeds(calls[waiting].result)
           \/ \E error \in Errors : AttemptFails(error)
    BY <1>3, ResultFacts
  <2>2. state.current_step < N /\ disk' = disk
    BY <1>1, <2>1 DEF TypeInv, StepRemains, AttemptSucceeds, AttemptFails
  <2>3. Proper(state')
    <3>1. CASE /\ calls[waiting].result = NormalResponse[Step(state)]
               /\ calls[waiting].result \in Payloads
               /\ AttemptSucceeds(calls[waiting].result)
      BY <1>2, <2>1, <2>2, <3>1, ProperGrows DEF AttemptSucceeds, Running
    <3>2. ASSUME NEW error \in Errors, AttemptFails(error) PROVE Proper(state')
      BY <1>2, <2>1, <2>2, <3>2, MarkStepFailedFacts, ProperKept
         DEF AttemptFails, EmitFailure, Running
    <3> QED
      BY <2>1, <3>1, <3>2
  <2> QED
    BY <1>2, <2>1, <2>2, <2>3 DEF ProperInv, Running
<1>4. CASE Orchestrate
  <2>1. CASE LogPipelineStarted
    <3>1. state' = SetDefaultTopic(state, state.topic) /\ disk' = disk /\ Running
      BY <2>1 DEF LogPipelineStarted, Running
    <3>2. state.topic \in Topics
      BY <1>2, <3>1 DEF PipelineState
    <3>3. Proper(state')
      BY <1>2, <3>1, <3>2, SetDefaultFacts, ProperKept
    <3> QED
      BY <1>2, <3>1, <3>3 DEF ProperInv
  <2>2. CASE GuardrailBlocks
    <3>1. /\ state' = MarkStepFailed(state, Step(state), "GuardrailBlocked")
          /\ disk' = disk /\ Running /\ state.current_step < N
      BY <1>1, <2>2 DEF GuardrailBlocks, Running, TypeInv, StepRemains
    <3>2. Proper(state')
      BY <1>2, <3>1, MarkStepFailedFacts, ProperKept
    <3> QED
      BY <1>2, <3>1, <3>2 DEF ProperInv
  <2>3. CASE SaveBlocked \/ SaveCheckpoint
    <3>1. disk' = state /\ Running /\ (Running' => state' = state)
      BY <2>3 DEF SaveBlocked, SaveCheckpoint, Stop, Running
    <3> QED
      BY <1>2, <3>1 DEF ProperInv
  <2>4. CASE Complete \/ GiveUp \/ StartAttempt \/ LogFallback \/ Retry \/ LogCheckpointWritten
    <3>1. disk' = disk /\ Running /\ (Running' => state' = state)
      BY <2>4 DEF Complete, GiveUp, StartAttempt, LogFallback, Retry, LogCheckpointWritten,
         Stop, Running
    <3> QED
      BY <1>2, <3>1 DEF ProperInv
  <2> QED
    BY <1>4, <2>1, <2>2, <2>3, <2>4, OrchestrateCases
<1>5. CASE Start
  <2>1. PICK topic \in Topics : StartFresh(topic)
    BY <1>1, <1>5, OneStart
  <2>2. state' = NewState(topic) /\ disk' = NewState(topic)
    BY <2>1 DEF StartFresh
  <2>3. Proper(NewState(topic))
    BY NewStateFacts DEF Proper
  <2> QED
    BY <2>2, <2>3 DEF ProperInv
<1>6. CASE InjectedSubmit \/ Die \/ UNCHANGED vars
  <2>1. disk' = disk /\ (Running' => state' = state /\ Running)
    BY <1>6 DEF InjectedSubmit, Submit, Die, Crash, Stop, vars, Running
  <2> QED
    BY <2>1 DEF ProperInv
<1> QED
  BY <1>3, <1>4, <1>5, <1>6, InjectedCases DEF injectedVars, vars

LEMMA ProperCorrect == InjectedSpec => []ProperInv
<1>1. InjectedInit => ProperInv
  BY DEF InjectedInit, AgentInit, Init, ProperInv, Running
<1>2. BaseInv /\ OneRunSoFar /\ PlanInv /\ ProperInv /\ [InjectedNext]_injectedVars => ProperInv'
  BY ProperStep DEF PlanInv
<1> QED
  BY <1>1, <1>2, PlanCorrect, PTL DEF InjectedSpec

\* Each completed step holds the mock client's full answer to its own prompt:
\* whatever the client does to the calls and in whatever order workers return,
\* nothing else gets past parse_output and the postconditions.
THEOREM OutputsAlwaysProper == InjectedSpec => []OutputsAreProper
<1>1. ProperInv => OutputsAreProper
  BY DEF ProperInv, Proper, OutputsAreProper
<1> QED
  BY <1>1, ProperCorrect, PTL

-----------------------------------------------------------------------------
(* The poisoned topics *)

PoisonedRun == disk # NoCheckpoint /\ disk.topic \in Poisoned

\* What is left to show when the run has begun on a poisoned topic.
LEMMA TopicKeptStep ==
  ASSUME TypeInv, MemInv, TopicKept, [Next]_vars
  PROVE  TopicKept'
<1> USE DEF TopicKept, Running, Goto, Stop
<1>1. Running => /\ state \in PipelineState
                 /\ pc \in {"call", "blocked"} => state.current_step < N
  BY RunFacts DEF TypeInv, StepRemains
<1>2. ASSUME NEW topic \in Topics, Resume(topic) PROVE TopicKept'
  <2>1. disk \in PipelineState
    BY <1>2 DEF Resume, TypeInv, TypeOK
  <2> QED
    BY <1>2, <2>1, SetDefaultFacts DEF Resume
<1>3. ASSUME NEW topic \in Topics, StartFresh(topic) \/ StartFreshRaises(topic)
      PROVE  TopicKept'
  BY <1>3 DEF StartFresh, StartFreshRaises
<1>4. CASE LogPipelineStarted
  <2>1. state.topic \in Topics
    BY <1>1, <1>4 DEF LogPipelineStarted, PipelineState
  <2> QED
    BY <1>1, <1>4, <2>1, SetDefaultFacts DEF LogPipelineStarted
<1>5. ASSUME NEW error \in Errors \cup {"GuardrailBlocked"}, pc = "call",
             state' = MarkStepFailed(state, Step(state), error), disk' = disk
      PROVE  TopicKept'
  BY <1>1, <1>5, MarkStepFailedFacts
<1>6. GuardrailBlocks => TopicKept'
  BY <1>5 DEF GuardrailBlocks
<1>7. ASSUME NEW error \in Errors, AttemptFails(error) PROVE TopicKept'
  BY <1>5, <1>7 DEF AttemptFails, EmitFailure
<1>8. ASSUME NEW output \in Payloads, AttemptSucceeds(output) PROVE TopicKept'
  BY <1>1, <1>8 DEF AttemptSucceeds, MarkStepDone, PipelineState
<1>9. CASE SaveBlocked \/ SaveCheckpoint \/ SaveRaises \/ StartAttempt \/ Complete \/ LogFallback
             \/ Retry \/ GiveUp \/ LogCheckpointWritten \/ Crash \/ UNCHANGED vars
  BY <1>9 DEF SaveBlocked, SaveCheckpoint, SaveRaises, StartAttempt, Complete, LogFallback, Retry,
     GiveUp, LogCheckpointWritten, Crash, vars
<1> QED
  BY <1>2, <1>3, <1>4, <1>6, <1>7, <1>8, <1>9 DEF Next, Run, Call

LEMMA PoisonRunning ==
  ASSUME BaseInv, NotPastFirstPrompt, PoisonedRun, Running
  PROVE  /\ N \in Nat /\ N > 0 /\ state \in PipelineState /\ Step(state) = PIPELINE_STEPS[1]
         /\ state.current_step = 0 /\ state.topic = disk.topic /\ disk.current_step = 0
         /\ pc \in {"fresh", "loop", "call", "blocked"}
         /\ calls = <<>> /\ waiting = 0
         /\ pc = "call" => PromptPoisoned(state)
<1>1. /\ state \in PipelineState /\ N \in Nat /\ N > 0
      /\ state.current_step = 0 /\ state.topic = disk.topic /\ disk.current_step = 0
      /\ pc \in {"fresh", "loop", "call", "blocked"} /\ calls = <<>>
      /\ state.outputs["topic"] = IF pc = "fresh" THEN Absent ELSE state.topic
  BY RunFacts, FirstPromptHasTopic DEF BaseInv, NotPastFirstPrompt, PoisonedRun
<1>2. waiting = 0
  BY <1>1 DEF BaseInv, AgentInv, WaitsForOwnCall
<1>3. Step(state) = PIPELINE_STEPS[1]
  BY <1>1 DEF Step
<1>4. pc = "call" => PromptPoisoned(state)
  BY <1>1, <1>3, FirstPromptHasTopic DEF PromptPoisoned, PoisonedRun
<1> QED
  BY <1>1, <1>2, <1>3, <1>4

\* GuardrailBlocked is the first failure of the run.
LEMMA FirstFailure ==
  ASSUME NEW s \in PipelineState, s.failed_attempts = <<>>, Step(s) = PIPELINE_STEPS[1]
  PROVE  MarkStepFailed(s, Step(s), "GuardrailBlocked").failed_attempts = FirstStepBlocked
<1> DEFINE failure == [step |-> PIPELINE_STEPS[1], error |-> "GuardrailBlocked"]
<1>1. MarkStepFailed(s, Step(s), "GuardrailBlocked").failed_attempts
        = Append(s.failed_attempts, failure)
  BY DEF MarkStepFailed, PipelineState
<1>2. FirstStepBlocked = <<failure>>
  BY DEF FirstStepBlocked
<1> HIDE DEF failure
<1>3. Append(<<>>, failure) = <<failure>>
  OBVIOUS
<1> QED
  BY <1>1, <1>2, <1>3

LEMMA NotPastStep ==
  ASSUME BaseInv, BaseInv', OneRunSoFar, TopicKept, NotPastFirstPrompt,
         [InjectedNext]_injectedVars
  PROVE  NotPastFirstPrompt'
<1>1. TypeInv /\ MemInv /\ runs \in 0..1
  BY OneRun DEF BaseInv, TypeInv, TypeOK
<1>2. CASE Start
  <2>1. PICK topic \in Topics : StartFresh(topic)
    BY <1>1, <1>2, OneStart
  <2>2. /\ state' = NewState(topic) /\ disk' = NewState(topic) /\ pc' = "fresh"
        /\ calls' = <<>>
    BY <1>1, <1>2, <2>1, OneStart DEF StartFresh
  <2>3. /\ NewState(topic).current_step = 0 /\ NewState(topic).outputs["topic"] = Absent
        /\ NewState(topic).failed_attempts = <<>>
    BY NewStateFacts DEF NewState, Keys
  <2> QED
    BY <2>2, <2>3 DEF NotPastFirstPrompt, Running
<1>3. ASSUME ~PoisonedRun, ~Start PROVE NotPastFirstPrompt'
  <2>1. /\ disk # NoCheckpoint => disk.topic \notin Poisoned
        /\ disk' # NoCheckpoint => disk'.topic \notin Poisoned
    <3>1. [Next]_vars
      BY InjectedStep, AgentStep DEF BaseInv, AgentInv
    <3>2. \/ disk' = disk
          \/ disk = NoCheckpoint /\ disk' # disk
          \/ Running /\ disk' = state
      BY <3>1, DiskSteps DEF Running
    <3>3. disk = NoCheckpoint => disk' = disk
      BY <1>1, <1>3, InjectedCases, OrchestrateCases, RunFacts
         DEF InjectedSubmit, Submit, InjectedResult, TakeAnswer, RejectAnswer, Reraise, TimesOut,
             AttemptSucceeds, AttemptFails, Orchestrate, LogPipelineStarted, StartAttempt,
             Complete, GuardrailBlocks, SaveBlocked, LogFallback, Retry, GiveUp, SaveCheckpoint,
             LogCheckpointWritten, Die, Crash, injectedVars, vars, Running
    <3> QED
      BY <1>1, <1>3, <3>2, <3>3, RunFacts DEF PoisonedRun, TopicKept
  <2> QED
    BY <2>1 DEF NotPastFirstPrompt
<1>4. ASSUME PoisonedRun, ~Running, ~Start PROVE NotPastFirstPrompt'
  <2>1. UNCHANGED <<pc, disk, outcome, calls>>
    <3>1. calls = <<>> /\ DOMAIN calls = {} /\ waiting = 0
      BY <1>4 DEF NotPastFirstPrompt, PoisonedRun, BaseInv, AgentInv, WaitsForOwnCall
    <3> QED
      BY <1>4, <3>1, InjectedCases
         DEF Running, InjectedSubmit, Submit, InjectedResult, TakeAnswer, RejectAnswer, Reraise,
             TimesOut, Orchestrate, Run, LogPipelineStarted, StartAttempt, Complete,
             GuardrailBlocks, SaveBlocked, AttemptFails, LogFallback, Retry, GiveUp,
             AttemptSucceeds, SaveCheckpoint, SaveRaises, LogCheckpointWritten, Die, Crash,
             injectedVars
  <2> QED
    BY <1>4, <2>1 DEF NotPastFirstPrompt, PoisonedRun, Running
<1>5. ASSUME PoisonedRun, Running, ~Start PROVE NotPastFirstPrompt'
  <2>1. /\ N \in Nat /\ N > 0 /\ state \in PipelineState /\ Step(state) = PIPELINE_STEPS[1]
        /\ state.current_step = 0 /\ state.topic = disk.topic /\ disk.current_step = 0
        /\ pc \in {"fresh", "loop", "call", "blocked"}
        /\ calls = <<>> /\ waiting = 0
        /\ pc = "call" => PromptPoisoned(state)
    BY <1>5, PoisonRunning
  <2>2. /\ state.outputs["topic"] = IF pc = "fresh" THEN Absent ELSE state.topic
        /\ state.failed_attempts = IF pc = "blocked" THEN FirstStepBlocked ELSE <<>>
    BY <1>5 DEF NotPastFirstPrompt, PoisonedRun
  <2>3. CASE LogPipelineStarted /\ UNCHANGED calls
    <3>1. /\ pc = "fresh" /\ pc' = "loop" /\ disk' = disk
          /\ state' = SetDefaultTopic(state, state.topic)
      BY <2>3 DEF LogPipelineStarted, Goto
    <3>2. state.topic \in Topics /\ state.outputs["topic"] = Absent
      BY <2>1, <2>2, <3>1 DEF PipelineState
    <3>3. /\ state'.topic = state.topic /\ state'.current_step = 0
          /\ state'.outputs["topic"] = state.topic
      BY <2>1, <3>1, <3>2, SetDefaultFacts
    <3>4. state'.failed_attempts = state.failed_attempts
      BY <2>1, <3>1 DEF SetDefaultTopic, PipelineState
    <3> QED
      BY <2>1, <2>2, <2>3, <3>1, <3>3, <3>4 DEF NotPastFirstPrompt, Running
  <2>4. CASE StartAttempt /\ UNCHANGED calls
    <3>1. pc = "loop" /\ pc' = "call" /\ disk' = disk /\ state' = state
      BY <2>4 DEF StartAttempt, Goto
    <3> QED
      BY <2>1, <2>2, <2>4, <3>1 DEF NotPastFirstPrompt, Running
  <2>5. CASE GuardrailBlocks /\ UNCHANGED calls
    <3>1. /\ pc = "call" /\ pc' = "blocked" /\ disk' = disk
          /\ state' = MarkStepFailed(state, Step(state), "GuardrailBlocked")
      BY <2>5 DEF GuardrailBlocks, Goto
    <3>2. /\ state'.topic = state.topic /\ state'.current_step = 0
          /\ state'.outputs = state.outputs
      BY <2>1, <3>1, MarkStepFailedFacts
    <3>3. state'.failed_attempts = FirstStepBlocked
      BY <2>1, <2>2, <3>1, FirstFailure
    <3> QED
      BY <2>1, <2>2, <2>5, <3>1, <3>2, <3>3 DEF NotPastFirstPrompt, Running
  <2>6. CASE SaveBlocked /\ UNCHANGED calls
    <3>1. pc = "blocked" /\ pc' = "down" /\ outcome' = "blocked" /\ disk' = state
      BY <2>6 DEF SaveBlocked, Stop
    <3> QED
      BY <2>1, <2>2, <2>6, <3>1 DEF NotPastFirstPrompt, Running
  <2>7. CASE Die
    <3>1. pc' = "down" /\ outcome' = "killed" /\ disk' = disk
      BY <2>7 DEF Die, Crash, Stop
    <3>2. calls' = <<>>
      <4>1. calls' \in Seq(CallRecord) /\ Len(calls') = Len(calls)
        BY <2>7, DieFacts DEF BaseInv, AgentInv, CallsSound
      <4> QED
        BY <2>1, <4>1
    <3> QED
      BY <2>1, <3>1, <3>2 DEF NotPastFirstPrompt, Running
  <2>8. CASE UNCHANGED <<vars, calls>>
    BY <1>5, <2>8 DEF vars, NotPastFirstPrompt, PoisonedRun, Running
  <2>9. ~InjectedSubmit
    BY <2>1 DEF InjectedSubmit, Submit
  <2>10. ~InjectedResult
    BY <2>1 DEF InjectedResult, TakeAnswer, RejectAnswer, Reraise, TimesOut
  <2>11. ~(Complete \/ LogFallback \/ Retry \/ GiveUp \/ SaveCheckpoint \/ LogCheckpointWritten)
    BY <2>1 DEF Complete, LogFallback, Retry, GiveUp, SaveCheckpoint, LogCheckpointWritten
  <2>12. DOMAIN calls = {}
    BY <2>1
  <2> QED
    BY <1>5, <2>3, <2>4, <2>5, <2>6, <2>7, <2>8, <2>9, <2>10, <2>11, <2>12, InjectedCases,
       OrchestrateCases DEF injectedVars, vars
<1> QED
  BY <1>2, <1>3, <1>4, <1>5

LEMMA PoisonCorrect == InjectedSpec => []PoisonInv
<1>1. InjectedInit => PoisonInv
  BY DEF InjectedInit, AgentInit, Init, PoisonInv, TopicKept, NotPastFirstPrompt, Running
<1>2. BaseInv /\ BaseInv' /\ OneRunSoFar /\ PoisonInv /\ [InjectedNext]_injectedVars
        => PoisonInv'
  <2> SUFFICES ASSUME BaseInv, BaseInv', OneRunSoFar, PoisonInv, [InjectedNext]_injectedVars
               PROVE  PoisonInv'
    OBVIOUS
  <2>1. [Next]_vars
    BY InjectedStep, AgentStep DEF BaseInv, AgentInv
  <2>2. TopicKept'
    BY <2>1, TopicKeptStep DEF BaseInv, PoisonInv
  <2>3. NotPastFirstPrompt'
    BY NotPastStep DEF PoisonInv
  <2> QED
    BY <2>2, <2>3 DEF PoisonInv
<1> QED
  BY <1>1, <1>2, PlanCorrect, PTL DEF InjectedSpec

\* "all poisoned pipelines abort BEFORE any model call" (chaos/injectors.py), with
\* a checkpoint that says why, whatever else the client would have done.
THEOREM PoisonedAlwaysAborts == InjectedSpec => []PoisonedAborts
<1>1. InjectedSpec => [](TypeInv /\ RetryInv)
  BY InjectedImplementsPipeline, RetryCorrect, PTL
<1>2. OneRunSoFar /\ PoisonInv /\ RetryInv => PoisonedAborts
  <2> SUFFICES ASSUME OneRunSoFar, PoisonInv, RetryInv,
                      outcome \notin {"none", "running", "killed"}, disk.topic \in Poisoned
               PROVE  /\ outcome = "blocked" /\ calls = <<>>
                      /\ disk.current_step = 0
                      /\ disk.failed_attempts = FirstStepBlocked
    BY DEF PoisonedAborts, FirstStepBlocked
  <2>1. disk # NoCheckpoint /\ ~Running
    BY DEF OneRunSoFar, RetryInv, OutcomeOfRun
  <2> QED
    BY <2>1 DEF PoisonInv, NotPastFirstPrompt
<1> QED
  BY <1>1, <1>2, PlanCorrect, PoisonCorrect, PTL

-----------------------------------------------------------------------------
(* The reports *)

\* A line counts as a failure if it is one of the two kinds.
LEMMA FailureCount ==
  ASSUME log \in Seq(Event)
  PROVE  /\ Cardinality(FailureEvents) \in Nat
         /\ log' = log => Cardinality(FailureEvents)' = Cardinality(FailureEvents)
         /\ \A type, step : Writes(type, step) =>
              Cardinality(FailureEvents)' = Cardinality(FailureEvents)
                + (IF type \in {"StepFailed", "GuardrailTriggered"} THEN 1 ELSE 0)
<1>1. FailureEvents \in SUBSET (1..Len(log)) /\ Len(log) \in Nat
  BY DEF FailureEvents, Logged
<1>2. /\ Cardinality(FailureEvents) \in Nat
      /\ Cardinality(FailureEvents \cup {Len(log) + 1}) = Cardinality(FailureEvents) + 1
  BY <1>1, CountFacts
<1>3. log' = log => FailureEvents' = FailureEvents
  BY SameLog DEF FailureEvents
<1>4. ASSUME NEW type, NEW step, Writes(type, step)
      PROVE  FailureEvents' = IF type \in {"StepFailed", "GuardrailTriggered"}
                              THEN FailureEvents \cup {Len(log) + 1} ELSE FailureEvents
  <2>1. \A counted : Logged(counted)' = IF counted = type THEN Logged(counted) \cup {Len(log) + 1}
                                        ELSE Logged(counted)
    BY <1>4, WrittenCounts
  <2> QED
    BY <2>1 DEF FailureEvents
<1>5. ASSUME NEW type, NEW step, Writes(type, step)
      PROVE  Cardinality(FailureEvents)' = Cardinality(FailureEvents)
               + (IF type \in {"StepFailed", "GuardrailTriggered"} THEN 1 ELSE 0)
  <2>1. CASE type \in {"StepFailed", "GuardrailTriggered"}
    <3>1. FailureEvents' = FailureEvents \cup {Len(log) + 1}
      BY <1>4, <1>5, <2>1
    <3> QED
      BY <1>2, <2>1, <3>1
  <2>2. CASE type \notin {"StepFailed", "GuardrailTriggered"}
    <3>1. FailureEvents' = FailureEvents
      BY <1>4, <1>5, <2>2
    <3> QED
      BY <1>2, <2>2, <3>1
  <2> QED
    BY <2>1, <2>2
<1> QED
  BY <1>2, <1>3, <1>5

LEMMA UnsavedFacts ==
  /\ pc = "saved" => Unsaved = 0
  /\ pc \in {"fallback", "failed"} => Unsaved = attempt
  /\ pc \notin {"saved", "fallback", "failed"} => Unsaved = attempt - 1
BY DEF Unsaved

\* When the run is over, or has not begun, nothing but its start changes it.
LEMMA DownStays ==
  ASSUME [InjectedNext]_injectedVars, ~Running, ~Start, AgentInv
  PROVE  /\ UNCHANGED <<vars, waiting>> /\ waiting = 0
         /\ \/ UNCHANGED wraps
            \/ \E c \in DOMAIN calls : Enter(c) \/ Wake(c) \/ Return(c)
<1>1. waiting = 0
  BY DEF Running, AgentInv, WaitsForOwnCall
<1> QED
  BY <1>1, InjectedCases, OrchestrateCases
     DEF Running, InjectedSubmit, Submit, InjectedResult, TakeAnswer, RejectAnswer, Reraise,
         TimesOut, LogPipelineStarted, StartAttempt, Complete, GuardrailBlocks, SaveBlocked,
         LogFallback, Retry, GiveUp, SaveCheckpoint, LogCheckpointWritten, Die, Crash,
         injectedVars, vars

\* setdefault and mark_step_done leave the failures alone; mark_step_failed adds one.
LEMMA FailuresKept ==
  ASSUME NEW s \in PipelineState, s.current_step < N
  PROVE  /\ Len(s.failed_attempts) \in Nat
         /\ \A topic : SetDefaultTopic(s, topic).failed_attempts = s.failed_attempts
         /\ \A output : MarkStepDone(s, Step(s), output).failed_attempts = s.failed_attempts
         /\ \A error : Len(MarkStepFailed(s, Step(s), error).failed_attempts)
                         = Len(s.failed_attempts) + 1
<1>1. s.failed_attempts \in Seq(Failure)
  BY DEF PipelineState
<1>2. \A topic : SetDefaultTopic(s, topic).failed_attempts = s.failed_attempts
  BY DEF SetDefaultTopic, PipelineState
<1>3. \A output : MarkStepDone(s, Step(s), output).failed_attempts = s.failed_attempts
  BY DEF MarkStepDone, PipelineState
<1>4. ASSUME NEW error
      PROVE  Len(MarkStepFailed(s, Step(s), error).failed_attempts) = Len(s.failed_attempts) + 1
  <2> DEFINE failure == [step |-> Step(s), error |-> error]
  <2>1. MarkStepFailed(s, Step(s), error).failed_attempts = Append(s.failed_attempts, failure)
    BY DEF MarkStepFailed, PipelineState
  <2> HIDE DEF failure
  <2> QED
    BY <1>1, <2>1
<1> QED
  BY <1>1, <1>2, <1>3, <1>4

LEMMA RecordedStep ==
  ASSUME BaseInv, OneRunSoFar, CallsAsPlanned, OutcomeOfTheRun, FailuresRecorded,
         [InjectedNext]_injectedVars
  PROVE  FailuresRecorded'
<1> DEFINE events == Cardinality(FailureEvents)
           memory == Len(state.failed_attempts)
           saved == Len(disk.failed_attempts)
<1>1. /\ TypeInv /\ MemInv /\ log \in Seq(Event) /\ MaxRetries \in Nat /\ N \in Nat
      /\ attempt \in 1..(MaxRetries + 1) /\ events \in Nat
  BY FailureCount, BoundsAssumption, StepFacts DEF BaseInv, TypeInv, TypeOK
<1>2. Running => /\ state \in PipelineState /\ disk \in PipelineState
                 /\ memory \in Nat /\ saved \in Nat
                 /\ state.current_step \in 0..N
                 /\ outcome = "running"
                 /\ pc \in {"call", "fallback", "failed", "blocked"} => state.current_step < N
  BY <1>1, RunFacts DEF PipelineState, OutcomeOfTheRun, TypeInv, StepRemains
<1>3. /\ log' = log => events' = events
      /\ \A type, step : Writes(type, step) =>
           events' = events + (IF type \in {"StepFailed", "GuardrailTriggered"} THEN 1 ELSE 0)
  BY <1>1, FailureCount
<1>4. /\ pc = "saved" => Unsaved = 0
      /\ pc \in {"fallback", "failed"} => Unsaved = attempt
      /\ pc \notin {"saved", "fallback", "failed"} => Unsaved = attempt - 1
  BY UnsavedFacts
<1>5. /\ pc' = "saved" => Unsaved' = 0
      /\ pc' \in {"fallback", "failed"} => Unsaved' = attempt'
      /\ pc' \notin {"saved", "fallback", "failed"} => Unsaved' = attempt' - 1
  BY DEF Unsaved
<1>6. /\ Running => memory = events
      /\ Running /\ pc # "blocked" => saved + Unsaved = events
      /\ pc \in {"down", "fresh"} \/ (pc = "loop" /\ state.current_step >= N) => attempt = 1
  BY DEF FailuresRecorded
<1>7. SUFFICES
        /\ Running' => memory' = events'
        /\ Running' /\ pc' # "blocked" => saved' + Unsaved' = events'
        /\ pc' \in {"down", "fresh"} \/ (pc' = "loop" /\ state'.current_step >= N) => attempt' = 1
        /\ outcome' = "exhausted" => saved' + MaxRetries + 1 = events'
        /\ outcome' \in {"completed", "blocked"} => saved' = events'
  BY DEF FailuresRecorded
<1> HIDE DEF events
<1> USE DEF Running
<1>8. CASE InjectedResult
  <2>1. /\ pc = "call"
        /\ \/ /\ calls[waiting].result \in Payloads
              /\ AttemptSucceeds(calls[waiting].result)
           \/ \E error \in Errors : AttemptFails(error)
    BY <1>8, ResultFacts
  <2>2. CASE AttemptSucceeds(calls[waiting].result) /\ calls[waiting].result \in Payloads
    <3>1. /\ pc' = "save" /\ UNCHANGED <<disk, attempt, outcome>>
          /\ state' = MarkStepDone(state, Step(state), calls[waiting].result)
      BY <2>2 DEF AttemptSucceeds, Goto
    <3>2. memory' = memory
      BY <1>2, <2>1, <3>1, FailuresKept
    <3>3. events' = events
      BY <1>1, <1>3, <2>2, LinesWritten
    <3> QED
      BY <1>2, <1>4, <1>5, <1>6, <2>1, <3>1, <3>2, <3>3
  <2>3. ASSUME NEW error \in Errors, AttemptFails(error)
        PROVE  /\ pc' \in {"fallback", "failed"} /\ UNCHANGED <<disk, attempt, outcome>>
               /\ memory' = memory + 1 /\ events' = events + 1
    <3>1. /\ pc' \in {"fallback", "failed"} /\ UNCHANGED <<disk, attempt, outcome>>
          /\ state' = MarkStepFailed(state, Step(state), error)
      BY <2>3 DEF AttemptFails, EmitFailure, Goto
    <3>2. memory' = memory + 1
      BY <1>2, <2>1, <3>1, FailuresKept
    <3>3. events' = events + 1
      BY <1>1, <1>3, <2>3, LinesWritten
    <3> QED
      BY <3>1, <3>2, <3>3
  <2>4. ASSUME NEW error \in Errors, AttemptFails(error)
        PROVE  memory' = events' /\ saved' + Unsaved' = events'
    <3>1. Unsaved' = attempt /\ Unsaved = attempt - 1 /\ saved' = saved
      BY <1>4, <1>5, <2>1, <2>3, <2>4
    <3>2. memory' = memory + 1 /\ events' = events + 1
      BY <2>3, <2>4
    <3>3. memory = events /\ saved + (attempt - 1) = events
      BY <1>6, <2>1, <3>1
    <3>4. saved \in Nat
      BY <1>2, <2>1
    <3> HIDE DEF memory, saved
    <3> QED
      BY <1>1, <3>1, <3>2, <3>3, <3>4
  <2> QED
    BY <1>2, <2>1, <2>2, <2>3, <2>4
<1>9. CASE Orchestrate
  <2>1. CASE LogPipelineStarted
    <3>1. /\ pc = "fresh" /\ pc' = "loop" /\ UNCHANGED <<disk, attempt, outcome>>
          /\ state' = SetDefaultTopic(state, state.topic)
      BY <2>1 DEF LogPipelineStarted, Goto
    <3>2. state'.failed_attempts = state.failed_attempts
      BY <1>2, <3>1 DEF SetDefaultTopic, PipelineState
    <3>3. events' = events
      BY <1>1, <1>3, <2>1, LinesWritten
    <3> QED
      BY <1>2, <1>4, <1>5, <1>6, <3>1, <3>2, <3>3
  <2>2. CASE StartAttempt
    <3>1. pc = "loop" /\ pc' = "call" /\ UNCHANGED <<state, disk, attempt, outcome>>
      BY <2>2 DEF StartAttempt, Goto
    <3>2. events' = events
      BY <1>1, <1>3, <2>2, LinesWritten
    <3> QED
      BY <1>2, <1>4, <1>5, <1>6, <3>1, <3>2
  <2>3. CASE Complete
    <3>1. /\ pc = "loop" /\ state.current_step >= N /\ pc' = "down" /\ outcome' = "completed"
          /\ disk' = disk /\ attempt' = 1
      BY <2>3 DEF Complete, Stop
    <3>2. events' = events
      BY <1>1, <1>3, <2>3, LinesWritten
    <3>3. saved = events
      BY <1>1, <1>2, <1>4, <1>6, <3>1
    <3> QED
      BY <3>1, <3>2, <3>3
  <2>4. CASE GuardrailBlocks
    <3>1. /\ pc = "call" /\ pc' = "blocked" /\ UNCHANGED <<attempt, outcome>>
          /\ state' = MarkStepFailed(state, Step(state), "GuardrailBlocked")
      BY <2>4 DEF GuardrailBlocks, Goto
    <3>2. memory' = memory + 1
      BY <1>2, <3>1, FailuresKept
    <3>3. events' = events + 1
      BY <1>1, <1>3, <2>4, LinesWritten
    <3> QED
      BY <1>2, <1>6, <3>1, <3>2, <3>3
  <2>5. CASE SaveBlocked
    <3>1. /\ pc = "blocked" /\ pc' = "down" /\ outcome' = "blocked" /\ log' = log
          /\ disk' = state /\ attempt' = 1
      BY <2>5 DEF SaveBlocked, Stop
    <3> QED
      BY <1>3, <1>6, <3>1
  <2>6. CASE LogFallback
    <3>1. pc = "fallback" /\ pc' = "failed" /\ UNCHANGED <<state, disk, attempt, outcome>>
      BY <2>6 DEF LogFallback, Goto
    <3>2. events' = events
      BY <1>1, <1>3, <2>6, LinesWritten
    <3> QED
      BY <1>2, <1>4, <1>5, <1>6, <3>1, <3>2
  <2>7. CASE Retry
    <3>1. /\ pc = "failed" /\ pc' = "loop" /\ attempt' = attempt + 1
          /\ UNCHANGED <<state, disk, outcome, log>>
      BY <2>7 DEF Retry, Goto
    <3>2. events' = events /\ Unsaved' = Unsaved
      BY <1>1, <1>3, <1>4, <1>5, <3>1
    <3>3. ~(state.current_step >= N)
      BY <1>1, <1>2, <3>1
    <3> QED
      BY <1>2, <1>6, <3>1, <3>2, <3>3
  <2>8. CASE GiveUp
    <3>1. /\ pc = "failed" /\ attempt > MaxRetries /\ pc' = "down" /\ outcome' = "exhausted"
          /\ attempt' = 1 /\ UNCHANGED <<disk, log>>
      BY <2>8 DEF GiveUp, Stop
    <3>2. saved + MaxRetries + 1 = events
      BY <1>1, <1>2, <1>4, <1>6, <3>1
    <3> QED
      BY <1>3, <3>1, <3>2
  <2>9. CASE SaveCheckpoint
    <3>1. pc = "save" /\ pc' = "saved" /\ disk' = state /\ UNCHANGED <<state, outcome, log>>
      BY <2>9 DEF SaveCheckpoint, Goto
    <3> QED
      BY <1>2, <1>3, <1>5, <1>6, <3>1
  <2>10. CASE LogCheckpointWritten
    <3>1. pc = "saved" /\ pc' = "loop" /\ attempt' = 1 /\ UNCHANGED <<state, disk, outcome>>
      BY <2>10 DEF LogCheckpointWritten, Goto
    <3>2. events' = events
      BY <1>1, <1>3, <2>10, LinesWritten
    <3> QED
      BY <1>2, <1>4, <1>5, <1>6, <3>1, <3>2
  <2> QED
    BY <1>9, <2>1, <2>2, <2>3, <2>4, <2>5, <2>6, <2>7, <2>8, <2>9, <2>10, OrchestrateCases
<1>10. CASE Start
  <2>1. PICK topic \in Topics : StartFresh(topic)
    BY <1>1, <1>10, OneStart
  <2>2. /\ pc = "down" /\ log = <<>> /\ log' = log /\ attempt' = attempt
        /\ state' = NewState(topic) /\ disk' = NewState(topic) /\ pc' = "fresh"
        /\ outcome' = "running"
    BY <1>1, <1>10, <2>1, OneStart DEF StartFresh
  <2>3. FailureEvents = {}
    BY <2>2 DEF FailureEvents, Logged
  <2>4. events = 0
    BY <2>3, FS_EmptySet, Zenon DEF events
  <2>5. NewState(topic).failed_attempts = <<>>
    BY DEF NewState
  <2> QED
    BY <1>3, <1>5, <1>6, <2>2, <2>4, <2>5
<1>11. CASE Die
  <2>1. pc' = "down" /\ outcome' = "killed" /\ attempt' = 1
    BY <1>11 DEF Die, Crash, Stop
  <2> QED
    BY <2>1
<1>12. CASE UNCHANGED vars
  <2>1. UNCHANGED <<state, disk, log, pc, attempt, outcome>> /\ events' = events
    BY <1>3, <1>12 DEF vars
  <2>2. Unsaved' = Unsaved
    BY <2>1 DEF Unsaved
  <2>3. /\ outcome = "exhausted" => saved + MaxRetries + 1 = events
        /\ outcome \in {"completed", "blocked"} => saved = events
    BY DEF FailuresRecorded, events
  <2> QED
    BY <1>6, <2>1, <2>2, <2>3
<1> QED
  BY <1>8, <1>9, <1>10, <1>11, <1>12, InjectedCases DEF InjectedSubmit, Submit, injectedVars, vars

\* A call keeps its number; one that is over gets none.
LEMMA NumbersKept ==
  ASSUME BaseInv, NEW c \in DOMAIN calls, Enter(c) \/ Wake(c) \/ Return(c)
  PROVE  /\ DOMAIN wraps' = DOMAIN wraps
         /\ \A d \in DOMAIN wraps : wraps[d].at # "new" =>
              wraps'[d].at # "new" /\ wraps'[d].fate = wraps[d].fate
         /\ \A d \in DOMAIN wraps : wraps[d].at = "new" =>
              \/ wraps'[d] = wraps[d]
              \/ d = waiting
              \/ ~Running
<1>1. /\ wraps \in Seq(WrapRecord) /\ DOMAIN wraps = DOMAIN calls /\ wraps[c] \in WrapRecord
  BY DEF BaseInv, AgentInv, CallsSound, CountInv
<1>2. CASE Enter(c)
  <2>1. \E new : wraps' = [wraps EXCEPT ![c] = new]
    BY <1>2 DEF Enter
  <2>2. wraps[c].at = "new" /\ (waiting = c \/ ~Running)
    BY <1>1, <1>2 DEF Enter, BaseInv, CountInv, IsNew, Stopped, Running
  <2> QED
    BY <1>1, <2>1, <2>2
<1>3. CASE Wake(c)
  <2> DEFINE new == [wraps[c] EXCEPT !.at = "awake"]
  <2>1. wraps' = [wraps EXCEPT ![c] = new] /\ wraps[c].at = "asleep"
    BY <1>3, Zenon DEF Wake
  <2>2. new.fate = wraps[c].fate /\ new.at = "awake"
    BY <1>1 DEF WrapRecord
  <2> HIDE DEF new
  <2> QED
    BY <1>1, <2>1, <2>2
<1>4. CASE Return(c)
  BY <1>4 DEF Return
<1> QED
  BY <1>2, <1>3, <1>4

LEMMA OutcomeOfTheRunStep ==
  ASSUME BaseInv, OneRunSoFar, OutcomeOfTheRun, OutcomeOfRun', [InjectedNext]_injectedVars
  PROVE  OutcomeOfTheRun'
<1>1. TypeInv /\ MemInv /\ AgentInv
  BY DEF BaseInv
<1>2. Running' => outcome' = "running"
  BY DEF OutcomeOfRun
<1>3. CASE Running
  <2>1. disk # NoCheckpoint /\ outcome = "running"
    BY <1>1, <1>3, RunFacts DEF OutcomeOfTheRun
  <2>2. CASE Complete /\ UNCHANGED <<calls, waiting, scenario, count, wraps>>
    <3>1. pc = "loop" /\ state.current_step >= N /\ outcome' = "completed" /\ disk' = disk
      BY <2>2 DEF Complete, Stop
    <3>2. disk.current_step = N
      BY <1>1, <1>3, <3>1, RunFacts
    <3>3. waiting = 0
      BY <3>1 DEF BaseInv, AgentInv, WaitsForOwnCall
    <3>4. 0 \notin DOMAIN wraps
      BY DEF BaseInv, CountInv
    <3>5. \A c \in DOMAIN wraps : wraps[c].at # "new"
      BY <3>1, <3>3, <3>4, AllCounted DEF BaseInv, IsNew
    <3> QED
      BY <1>2, <2>2, <3>1, <3>2, <3>5 DEF OutcomeOfTheRun
  <2>3. CASE SaveBlocked \/ GiveUp \/ Die
    <3>1. outcome' \in {"blocked", "exhausted", "killed"}
      BY <2>3 DEF SaveBlocked, GiveUp, Die, Crash, Stop
    <3> QED
      BY <1>2, <3>1 DEF OutcomeOfTheRun
  <2>4. CASE /\ ~(SaveBlocked \/ GiveUp \/ Die)
             /\ ~(Complete /\ UNCHANGED <<calls, waiting, scenario, count, wraps>>)
    <3>1. Running' /\ outcome' = "running"
      <4>1. ~Start
        BY <1>3 DEF Start, Call, Resume, StartFresh, StartFreshRaises, BeginRun, Running
      <4>2. Running'
        BY <1>3, <2>4, <4>1, InjectedCases, OrchestrateCases
           DEF Running, InjectedSubmit, Submit, InjectedResult, TakeAnswer, RejectAnswer, Reraise,
               TimesOut, AttemptSucceeds, AttemptFails, Goto, LogPipelineStarted, StartAttempt,
               GuardrailBlocks, LogFallback, Retry, SaveCheckpoint, LogCheckpointWritten,
               injectedVars, vars
      <4> QED
        BY <1>2, <4>2
    <3> QED
      BY <3>1 DEF OutcomeOfTheRun
  <2> QED
    BY <2>2, <2>3, <2>4
<1>4. CASE ~Running /\ Start
  <2>1. PICK topic \in Topics : StartFresh(topic)
    BY <1>1, <1>4, OneStart
  <2>2. Running' /\ outcome' = "running"
    BY <2>1 DEF StartFresh, Running
  <2> QED
    BY <2>2 DEF OutcomeOfTheRun
<1>5. CASE ~Running /\ ~Start
  <2>1. /\ UNCHANGED vars
        /\ \/ UNCHANGED wraps
           \/ \E c \in DOMAIN calls : Enter(c) \/ Wake(c) \/ Return(c)
    BY <1>1, <1>5, DownStays
  <2>2. (\A c \in DOMAIN wraps : wraps[c].at # "new")
          => \A c \in DOMAIN wraps' : wraps'[c].at # "new"
    BY <2>1, NumbersKept
  <2>3. UNCHANGED <<pc, outcome, disk>>
    BY <2>1 DEF vars
  <2> QED
    BY <1>5, <2>2, <2>3 DEF OutcomeOfTheRun, Running
<1> QED
  BY <1>3, <1>4, <1>5

\* How many calls are settled, and when one more is.
LEMMA SettledFacts ==
  ASSUME BaseInv, NEW fates
  PROVE  /\ Cardinality(Settled(fates)) \in Nat
         /\ waiting \in DOMAIN wraps =>
              Cardinality(Injections(fates))
                = Cardinality(Settled(fates))
                  + (IF wraps[waiting].at # "new" /\ wraps[waiting].fate \in fates THEN 1 ELSE 0)
         /\ waiting = 0 => Injections(fates) = Settled(fates)
<1>1. /\ Len(wraps) \in Nat /\ DOMAIN wraps = 1..Len(wraps)
      /\ Injections(fates) \in SUBSET (1..Len(wraps))
  BY DEF BaseInv, CountInv, Injections
<1>2. IsFiniteSet(Injections(fates)) /\ Cardinality(Injections(fates)) \in Nat
  BY <1>1, CountFacts
<1>3. Cardinality(Settled(fates))
        = IF waiting \in Injections(fates) THEN Cardinality(Injections(fates)) - 1
          ELSE Cardinality(Injections(fates))
  BY <1>2, FS_RemoveElement DEF Settled
<1>4. Settled(fates) \in SUBSET (1..Len(wraps))
  BY <1>1 DEF Settled
<1>5. Cardinality(Settled(fates)) \in Nat
  BY <1>1, <1>4, CountFacts
<1>6. waiting \in DOMAIN wraps =>
        (waiting \in Injections(fates)
           <=> wraps[waiting].at # "new" /\ wraps[waiting].fate \in fates)
  BY DEF Injections
<1>7. waiting = 0 => Injections(fates) = Settled(fates)
  BY <1>1 DEF Settled
<1> QED
  BY <1>2, <1>3, <1>5, <1>6, <1>7

\* A step that takes no result settles no call.
LEMMA SettledSame ==
  ASSUME BaseInv, BaseInv', [InjectedNext]_injectedVars, ~InjectedResult, ~Die, NEW fates,
         Running \/ \A c \in DOMAIN wraps : wraps[c].at # "new"
  PROVE  Settled(fates)' = Settled(fates)
<1>1. /\ wraps \in Seq(WrapRecord) /\ Len(wraps) = Len(calls) /\ DOMAIN wraps = 1..Len(wraps)
      /\ Len(wraps) \in Nat
  BY DEF BaseInv, CountInv
<1>2. CASE InjectedSubmit
  <2>1. waiting = 0 /\ wraps' = Append(wraps, NewWrap)
    BY <1>2 DEF InjectedSubmit, Submit
  <2>2. waiting' = Len(wraps) + 1
    BY <1>1, <1>2, SubmitFacts DEF InjectedSubmit, BaseInv, AgentInv
  <2>3. NewWrap.at = "new"
    BY DEF NewWrap
  <2>4. /\ DOMAIN wraps' = 1..(Len(wraps) + 1) /\ wraps'[Len(wraps) + 1] = NewWrap
        /\ \A c \in 1..Len(wraps) : wraps'[c] = wraps[c]
    BY <1>1, <2>1
  <2>5. \A c : c \in DOMAIN wraps' <=> c \in DOMAIN wraps \/ c = Len(wraps) + 1
    BY <1>1, <2>4
  <2>6. Injections(fates)' = Injections(fates)
    BY <1>1, <2>3, <2>4, <2>5 DEF Injections
  <2>7. waiting \notin DOMAIN wraps /\ waiting' \notin DOMAIN wraps
    BY <1>1, <2>1, <2>2
  <2>8. Injections(fates) \subseteq DOMAIN wraps
    BY DEF Injections
  <2> QED
    BY <2>6, <2>7, <2>8 DEF Settled
<1>3. CASE UNCHANGED <<wraps, waiting>>
  BY <1>3 DEF Settled, Injections
<1>4. CASE (\E c \in DOMAIN calls : Enter(c) \/ Wake(c) \/ Return(c)) /\ UNCHANGED waiting
  <2>1. /\ DOMAIN wraps' = DOMAIN wraps
        /\ \A d \in DOMAIN wraps : wraps[d].at # "new" =>
             wraps'[d].at # "new" /\ wraps'[d].fate = wraps[d].fate
        /\ \A d \in DOMAIN wraps : wraps[d].at = "new" => wraps'[d] = wraps[d] \/ d = waiting
    BY <1>4, NumbersKept
  <2> QED
    BY <1>4, <2>1 DEF Settled, Injections
<1> QED
  BY <1>2, <1>3, <1>4, InjectedCases DEF injectedVars

LEMMA FailuresAreInjectionsStep ==
  ASSUME BaseInv, BaseInv', OneRunSoFar, CallsAsPlanned, OutcomeOfTheRun, FailuresAreInjections,
         [InjectedNext]_injectedVars
  PROVE  FailuresAreInjections'
<1> DEFINE events == Cardinality(FailureEvents)
           least == Cardinality(Settled(Raising \cup Spoiling))
           most == Cardinality(Settled(Fates \ {"none"}))
<1>1. /\ TypeInv /\ MemInv /\ log \in Seq(Event)
      /\ events \in Nat /\ least \in Nat /\ most \in Nat
  BY FailureCount, SettledFacts DEF BaseInv, TypeInv, TypeOK
<1>2. /\ log' = log => events' = events
      /\ \A type, step : Writes(type, step) =>
           events' = events + (IF type \in {"StepFailed", "GuardrailTriggered"} THEN 1 ELSE 0)
  BY <1>1, FailureCount
<1>3. pc \notin {"down", "blocked"} \/ outcome = "completed" => least <= events /\ events <= most
  BY DEF FailuresAreInjections
<1>4. SUFFICES pc' \notin {"down", "blocked"} \/ outcome' = "completed" =>
                 least' <= events' /\ events' <= most'
  BY DEF FailuresAreInjections
<1>5. CASE InjectedResult
  <2> DEFINE fate == wraps[waiting].fate
  <2>1. /\ pc = "call" /\ waiting \in DOMAIN wraps /\ waiting' = 0 /\ wraps' = wraps
        /\ wraps[waiting].at # "new"
        /\ \/ /\ fate \in Sleeping \cup {"none"}
              /\ calls[waiting].result \in Payloads /\ AttemptSucceeds(calls[waiting].result)
           \/ fate # "none" /\ \E error \in Errors : AttemptFails(error)
    BY <1>5, ResultFacts
  <2>2. fate \in Fates
    <3>1. wraps[waiting] \in WrapRecord
      BY <2>1 DEF BaseInv, CountInv
    <3> QED
      BY <3>1 DEF WrapRecord
  <2>3. ASSUME NEW fates
        PROVE  Cardinality(Settled(fates))'
                 = Cardinality(Settled(fates)) + (IF fate \in fates THEN 1 ELSE 0)
    <3>1. Settled(fates)' = Injections(fates)
      BY <2>1 DEF Settled, Injections, BaseInv, CountInv
    <3>2. Cardinality(Injections(fates))
            = Cardinality(Settled(fates)) + (IF fate \in fates THEN 1 ELSE 0)
      BY <2>1, SettledFacts
    <3> QED
      BY <3>1, <3>2
  <2>4. /\ least' = least + (IF fate \in Raising \cup Spoiling THEN 1 ELSE 0)
        /\ most' = most + (IF fate \in Fates \ {"none"} THEN 1 ELSE 0)
    BY <2>3
  <2> HIDE DEF fate, least, most, events
  <2>5. CASE fate \in Sleeping \cup {"none"} /\ calls[waiting].result \in Payloads
               /\ AttemptSucceeds(calls[waiting].result)
    <3>1. events' = events
      BY <1>1, <1>2, <2>5, LinesWritten
    <3>2. fate \notin Raising \cup Spoiling
      BY <2>5 DEF Sleeping, Spoiling, Raising, ScenarioToExc
    <3> QED
      BY <1>1, <1>3, <2>1, <2>4, <3>1, <3>2
  <2>6. CASE fate # "none" /\ \E error \in Errors : AttemptFails(error)
    <3>1. events' = events + 1
      BY <1>1, <1>2, <2>6, LinesWritten
    <3>2. fate \in Fates \ {"none"}
      BY <2>2, <2>6
    <3>3. most' = most + 1
      BY <2>4, <3>2
    <3>4. least' = least \/ least' = least + 1
      BY <1>1, <2>4
    <3> QED
      BY <1>1, <1>3, <2>1, <3>1, <3>3, <3>4
  <2> QED
    BY <2>1, <2>5, <2>6
<1>6. CASE Die
  <2>1. pc' = "down" /\ outcome' = "killed"
    BY <1>6 DEF Die, Crash, Stop
  <2> QED
    BY <2>1
<1>7. CASE Start
  <2>1. /\ \E topic \in Topics : StartFresh(topic)
        /\ log = <<>> /\ log' = log /\ calls = <<>> /\ UNCHANGED <<calls, waiting>>
    BY <1>1, <1>7, OneStart
  <2>2. wraps' = wraps /\ DOMAIN wraps = {}
    <3>1. runs' # runs
      BY <1>1, <1>7, OneStart
    <3>2. wraps' = wraps
      BY <3>1, InjectedCases DEF InjectedSubmit, Submit, InjectedResult, injectedVars, vars
    <3> QED
      BY <2>1, <3>2 DEF BaseInv, CountInv
  <2>3. FailureEvents = {}
    BY <2>1 DEF FailureEvents, Logged
  <2>4. Settled(Raising \cup Spoiling)' = {} /\ Settled(Fates \ {"none"})' = {}
    BY <2>2 DEF Settled, Injections
  <2>5. events = 0 /\ least' = 0 /\ most' = 0
    BY <2>3, <2>4, FS_EmptySet
  <2> QED
    BY <1>2, <2>1, <2>5
<1>8. CASE ~InjectedResult /\ ~Die /\ ~Start
             /\ (Running \/ outcome = "completed")
  <2>1. \A fates : Settled(fates)' = Settled(fates)
    BY <1>8, SettledSame DEF OutcomeOfTheRun
  <2>2. least' = least /\ most' = most
    BY <2>1
  <2> HIDE DEF least, most, events
  <2>3. CASE GuardrailBlocks \/ (SaveBlocked /\ Orchestrate)
    <3>1. pc' \in {"blocked", "down"} /\ outcome' # "completed"
      BY <1>8, <2>3 DEF GuardrailBlocks, SaveBlocked, Goto, Stop, OutcomeOfTheRun, Running
    <3> QED
      BY <3>1
  <2>4. CASE Orchestrate /\ ~GuardrailBlocks /\ ~SaveBlocked
    <3>1. pc \notin {"down", "blocked"}
      BY <2>4, OrchestrateCases DEF LogPipelineStarted, StartAttempt, Complete, LogFallback, Retry,
         GiveUp, SaveCheckpoint, LogCheckpointWritten
    <3>2. events' = events
      <4>1. LogPipelineStarted \/ StartAttempt \/ Complete \/ LogFallback \/ LogCheckpointWritten
              => events' = events
        BY <1>1, <1>2, LinesWritten
      <4>2. Retry \/ GiveUp \/ SaveCheckpoint => events' = events
        BY <1>2 DEF Retry, GiveUp, SaveCheckpoint
      <4> QED
        BY <2>4, <4>1, <4>2, OrchestrateCases
    <3> QED
      BY <1>3, <2>2, <3>1, <3>2
  <2>5. CASE UNCHANGED vars
    <3>1. UNCHANGED <<pc, outcome>> /\ events' = events
      BY <1>2, <2>5 DEF vars
    <3> QED
      BY <1>3, <2>2, <3>1
  <2> QED
    BY <1>8, <2>3, <2>4, <2>5, InjectedCases DEF InjectedSubmit, Submit, injectedVars, vars
<1>9. CASE ~Start /\ ~Running /\ outcome # "completed"
  <2>1. UNCHANGED <<pc, outcome>>
    BY <1>9, DownStays DEF BaseInv, vars
  <2> QED
    BY <1>9, <2>1 DEF Running
<1> QED
  BY <1>5, <1>6, <1>7, <1>8, <1>9

LEMMA ReportInvInit == InjectedInit => ReportInv
<1> SUFFICES ASSUME InjectedInit PROVE ReportInv
  OBVIOUS
<1>1. /\ log = <<>> /\ wraps = <<>> /\ pc = "down" /\ outcome = "none" /\ attempt = 1
  BY DEF InjectedInit, AgentInit, Init
<1> QED
  BY <1>1 DEF ReportInv, FailuresRecorded, OutcomeOfTheRun, FailuresAreInjections, Running

LEMMA ReportCorrect == InjectedSpec => []ReportInv
<1>1. BaseInv /\ BaseInv' /\ OneRunSoFar /\ PlanInv /\ ReportInv /\ RetryInv'
        /\ [InjectedNext]_injectedVars => ReportInv'
  BY RecordedStep, OutcomeOfTheRunStep, FailuresAreInjectionsStep
     DEF ReportInv, PlanInv, RetryInv
<1>2. InjectedSpec => [](TypeInv /\ RetryInv)
  BY InjectedImplementsPipeline, RetryCorrect, PTL
<1> QED
  BY <1>1, <1>2, ReportInvInit, PlanCorrect, PTL DEF InjectedSpec

\* The record of a pipeline agrees with what its client did to it: no pipeline
\* counts as crashed, the failures in its checkpoint are those of its log less
\* those of a step that was given up, and if it completed they lie between the
\* calls that had to fail and all those the client did something to.
THEOREM ReportsAlwaysAddUp == InjectedSpec => []ReportsAddUp
<1>1. BaseInv /\ OneRunSoFar /\ ReportInv => ReportsAddUp
  <2> SUFFICES ASSUME BaseInv, OneRunSoFar, ReportInv,
                      outcome \notin {"none", "running", "killed"}
               PROVE  LET lost == IF outcome = "exhausted" THEN MaxRetries + 1 ELSE 0
                      IN  /\ Report.status # "crashed" /\ Report.state_file_valid
                          /\ Report.failed_attempts + lost = Cardinality(FailureEvents)
                          /\ Report.status = "completed" =>
                               /\ Len(Report.completed_steps) = N
                               /\ Cardinality(Injections(Raising \cup Spoiling))
                                    <= Report.failed_attempts
                               /\ Report.failed_attempts <= Report.injections
    BY DEF ReportsAddUp, FailureEvents
  <2>1. /\ outcome \in {"exhausted", "completed", "blocked"} /\ ~Running
        /\ disk # NoCheckpoint /\ disk \in PipelineState
    BY DEF ReportInv, OutcomeOfTheRun, OneRunSoFar, BaseInv, TypeInv, TypeOK
  <2>2. waiting = 0
    BY <2>1 DEF Running, BaseInv, AgentInv, WaitsForOwnCall
  <2>3. /\ Report.status = (IF outcome = "completed" THEN "completed" ELSE "aborted")
        /\ Report.completed_steps = disk.completed_steps
        /\ Report.failed_attempts = Len(disk.failed_attempts)
        /\ Report.injections = Cardinality(Injections(Fates \ {"none"}))
        /\ Report.state_file_valid
    BY <2>1 DEF Report
  <2>4. \A fates : Injections(fates) = Settled(fates)
    BY <2>2, SettledFacts
  <2>5. Len(disk.failed_attempts) \in Nat /\ MaxRetries \in Nat
    BY <2>1, BoundsAssumption DEF PipelineState
  <2>6. Len(disk.failed_attempts) + (IF outcome = "exhausted" THEN MaxRetries + 1 ELSE 0)
          = Cardinality(FailureEvents)
    <3> DEFINE saved == Len(disk.failed_attempts)
               events == Cardinality(FailureEvents)
    <3>1. /\ outcome = "exhausted" => saved + MaxRetries + 1 = events
          /\ outcome # "exhausted" => saved = events
      BY <2>1 DEF ReportInv, FailuresRecorded
    <3>2. saved \in Nat
      BY <2>5
    <3> HIDE DEF saved, events
    <3>3. saved + (IF outcome = "exhausted" THEN MaxRetries + 1 ELSE 0) = events
      BY <2>5, <3>1, <3>2
    <3> QED
      BY <3>3 DEF saved, events
  <2>7. ASSUME outcome = "completed"
        PROVE  /\ Len(disk.completed_steps) = N
               /\ Cardinality(Injections(Raising \cup Spoiling)) <= Len(disk.failed_attempts)
               /\ Len(disk.failed_attempts) <= Cardinality(Injections(Fates \ {"none"}))
    <3>1. Len(disk.completed_steps) = N
      BY <2>1, <2>7
         DEF ReportInv, OutcomeOfTheRun, BaseInv, MemInv, StatesSound, Sound, Consistent
    <3>2. Len(disk.failed_attempts) = Cardinality(FailureEvents)
      BY <2>7 DEF ReportInv, FailuresRecorded
    <3>3. /\ Cardinality(Settled(Raising \cup Spoiling)) <= Cardinality(FailureEvents)
          /\ Cardinality(FailureEvents) <= Cardinality(Settled(Fates \ {"none"}))
      BY <2>7 DEF ReportInv, FailuresAreInjections
    <3> QED
      BY <2>4, <3>1, <3>2, <3>3
  <2> QED
    BY <2>1, <2>3, <2>6, <2>7
<1> QED
  BY <1>1, PlanCorrect, ReportCorrect, PTL

\* The invariant of the outcome holds: log, checkpoint and client agree in every
\* reachable state of a run with an injecting client.
THEOREM OutcomeHolds == InjectedSpec => []OutcomeInv
BY PlanCorrect, ProperCorrect, PoisonCorrect, ReportCorrect, PTL DEF OutcomeInv

=============================================================================
