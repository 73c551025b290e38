----------------------------- MODULE SourceItems -----------------------------
(* What becomes of one item on its way in: the raw contract of its source     *)
(* (sources/models.py), the normalizer the registry picks (sources/registry,  *)
(* normalizers/), the canonical text and addresses (sources/text.py), the     *)
(* admission policy (sources/admission.py) and the right to publish its media *)
(* (application/source_media.py).  A text is "words" or "marks", characters   *)
(* that normalization removes; a topic stands for the phrases and labels that *)
(* name it.                                                                   *)
EXTENDS SequencesExt

CONSTANTS
    Resources,   \* what an address leads to
    MaxMedia,    \* media of a normalized item, 200 in the code
    MaxBlocks,   \* blocks of a Pikabu story, 500 in the code
    Topics       \* "politics" and "sports", and topics that are not excluded

ASSUME MediaAssumption == MaxMedia \in Nat \ {0} /\ MaxBlocks \in Nat

VARIABLES
    raw,     \* the item as the source delivered it
    doc,     \* the normalized item, or the raw item until there is one
    verdict  \* "raw", "refused", "normalized", "excluded" or "stored"

itemVars == <<raw, doc, verdict>>

----------------------------------------------------------------------------
(* sources/text.py: canonicalize_http_url. *)

\* An address: the port in it, whether it carries tracking parameters, the order
\* of its other parameters, and whether it is sound: HTTP(S), without credentials,
\* and with a host that IDNA can encode. A raw contract accepts unsound ones too.
\* The address of a Reddit post stands for its permalink and for its outbound_url.
Addresses == [resource : Resources, port : {"none", "default", "other"},
              tracked : BOOLEAN, query : {<<"a", "b">>, <<"b", "a">>}, sound : BOOLEAN]

\* Of a sound address; for another one it raises a ValueError.
Canonical(address) ==
    [address EXCEPT !.port = IF @ = "default" THEN "none" ELSE @,
                    !.tracked = FALSE,
                    !.query = <<"a", "b">>]

\* normalize_text: what is left of a text.
Normal(text) == IF text = "marks" THEN "" ELSE text

----------------------------------------------------------------------------
(* sources/models.py: the raw contracts. *)

\* Guardian items have audio, Reddit items previews and at most one video, and
\* the blocks of a Pikabu story are its text as well as its media.
MediaKinds(source) ==
    IF source = "guardian" THEN {"image", "video", "audio"} ELSE {"image", "video"}
TextKinds(source) == IF source = "pikabu" THEN {"text", "quote"} ELSE {}

PlainAddress == CHOOSE a \in Addresses : a = Canonical(a) /\ a.sound

\* A block; its address stands for that of its medium and that of its poster. A
\* quote is one without an author.
Blocks(source) ==
    [kind : MediaKinds(source), address : Addresses, text : {"none"}]
        \cup [kind : TextKinds(source), address : {PlainAddress}, text : {"words", "marks"}]

\* RawRightsDeclaration, the license of an attribution license included.
Declarations ==
    [status : {"unknown", "permission_required", "attribution_license", "public_domain"},
     republication : {"yes", "no", "unstated"},
     derivatives : {"yes", "no", "unstated"}]

\* The fields the topics of an item are read from (_metadata_labels): its
\* labels, and the trail text that only a Guardian item has.
Fields(source) ==
    CASE source = "guardian" -> {"section", "pillar", "tags", "trail", "title"}
      [] source = "dazhong" -> {"channel", "tags", "title"}
      [] source = "reddit" -> {"subreddit", "flair", "title"}
      [] source = "pikabu" -> {"tags", "title"}

\* The texts an item cannot be without, its title and content aside.
Names(source) == {"id", "language", IF source = "reddit" THEN "subreddit" ELSE "publisher"}

\* The item is one that its raw contract accepts.
RawItem(item) ==
    /\ item.source = "pikabu" => item.blocks # <<>> /\ item.body = "none"
    /\ item.source # "pikabu" => item.body # "none"
    \* The other contracts hold fewer media than a normalized item.
    /\ item.source # "pikabu" => Len(item.blocks) <= MaxMedia
    \* Only Reddit posts may come without a body; their one video comes last.
    /\ item.body = "empty" => item.source = "reddit"
    /\ item.source = "reddit" => \A i \in DOMAIN item.blocks :
          item.blocks[i].kind = "video" => i = Len(item.blocks)
    /\ raw = item

PlainRights == [status |-> "permission_required", republication |-> "unstated",
                derivatives |-> "unstated"]

Plain == [kind |-> "image", address |-> PlainAddress, text |-> "none"]

PlainItem(source) ==
    [source |-> source, title |-> "words", address |-> PlainAddress,
     body |-> IF source = "pikabu" THEN "none" ELSE "words", blocks |-> <<Plain>>,
     names |-> [name \in Names(source) |-> "words"], rights |-> PlainRights, topics |-> <<>>]

PlainBlocks == {block \in Blocks("pikabu") :
                   block.address = Canonical(block.address) /\ block.address.sound}

\* Media, texts, address and names, rights and topics are independent: an item
\* has more than the plain one of at most one of them.
ItemInit ==
    /\ \E source \in {"dazhong", "reddit", "guardian", "pikabu"} :
          \/ \E n \in 0..MaxMedia : \E blocks \in [1..n -> Blocks(source)] :
                RawItem([PlainItem(source) EXCEPT !.blocks = blocks])
          \/ \E n \in 0..MaxBlocks : \E blocks \in [1..n -> PlainBlocks] :
                RawItem([PlainItem("pikabu") EXCEPT !.blocks = blocks])
          \/ \E title \in {"words", "marks"}, body \in {"words", "marks", "empty", "none"},
                block \in Blocks(source) :
                RawItem([PlainItem(source) EXCEPT !.title = title, !.body = body,
                                                  !.blocks = <<block>>])
          \/ \E address \in Addresses, names \in [Names(source) -> {"words", "marks"}] :
                RawItem([PlainItem(source) EXCEPT !.address = address, !.names = names])
          \/ \E rights \in Declarations, block \in Blocks(source) :
                RawItem([PlainItem(source) EXCEPT !.rights = rights, !.blocks = <<block>>])
          \/ \E fields \in SUBSET Fields(source) : \E topics \in [fields -> Topics] :
                RawItem([PlainItem(source) EXCEPT !.topics = topics])
    /\ doc = raw
    /\ verdict = "raw"

----------------------------------------------------------------------------
(* The normalizers. *)

IsMedia(block) == block.kind \in {"image", "video", "audio"}

\* One address that cannot be made canonical refuses its item.
AddressesAreSound(item) ==
    /\ item.address.sound
    /\ \A i \in DOMAIN item.blocks : IsMedia(item.blocks[i]) => item.blocks[i].address.sound

\* _extract_media and the media branches of the Pikabu and Reddit normalizers.
Extracted(blocks) ==
    FlattenSeq([i \in DOMAIN blocks |->
        IF IsMedia(blocks[i])
        THEN <<[kind |-> blocks[i].kind, address |-> Canonical(blocks[i].address)]>>
        ELSE <<>>])

\* deduplicate_media: the first of its kind at an address.
Deduplicated(media) ==
    LET keep == {i \in DOMAIN media : \A j \in 1..(i - 1) : media[j] # media[i]}
    IN  [i \in 1..Cardinality(keep) |-> media[SetToSortSeq(keep, <)[i]]]

\* What is left of a text; nothing of one is no paragraph.
Said(text) == IF Normal(text) = "" THEN <<>> ELSE <<Normal(text)>>

\* A quote keeps its mark, and a space after it, when its words are gone.
Paragraph(block) ==
    IF IsMedia(block) THEN <<>>
    ELSE IF block.kind = "text" THEN Said(block.text)
    ELSE IF Normal(block.text) = "" THEN <<"> ">> ELSE <<"quoted">>

\* The text of a Pikabu story: its text and quote blocks, those that are left.
Paragraphs(blocks) == FlattenSeq([i \in DOMAIN blocks |-> Paragraph(blocks[i])])

\* Fault: a story of images alone has no text.
ContentOfBody(item) ==
    IF item.source = "pikabu" THEN Paragraphs(item.blocks) ELSE Said(item.body)

\* The content: Reddit and Pikabu fall back on the title.
Content(item) ==
    LET own == CASE item.source = "pikabu" -> Paragraphs(item.blocks)
                 [] item.body = "empty" -> <<>>
                 [] OTHER -> Said(item.body)
    IN  IF own = <<>> /\ item.source \in {"reddit", "pikabu"} /\ Normal(item.title) # ""
        THEN <<Normal(item.title)>>
        ELSE own

\* Fault: only an unknown status waits for a person.
BuildRightsTrusting(declaration) ==
    [declared |-> declaration, review |-> declaration.status = "unknown"]

\* build_rights.
BuildRights(declaration) ==
    [declared |-> declaration,
     review |-> \/ declaration.status \in {"unknown", "permission_required"}
                \/ /\ declaration.status = "attribution_license"
                   /\ declaration.republication # "yes"]

\* build_flags.
BuildFlags(media, rights) ==
    [kinds |-> {media[i].kind : i \in DOMAIN media}, review |-> rights.review]

Normalized(item) ==
    LET media  == Deduplicated(Extracted(item.blocks))
        rights == BuildRights(item.rights)
    IN  [source |-> item.source, address |-> Canonical(item.address),
         names |-> [name \in DOMAIN item.names |-> Normal(item.names[name])],
         title |-> Normal(item.title), content |-> Content(item),
         digest |-> Content(item), media |-> media, rights |-> rights,
         flags |-> BuildFlags(media, rights), topics |-> item.topics]

\* str_strip_whitespace: the model strips the text it is given.
Stripped(content) ==
    IF content # <<>> /\ Last(content) = "> " THEN Front(content) \o <<">">> ELSE content

\* stable_external_id, NormalizedSourceItem, its attribution and source fields, and
\* validate_derived_fields.
ValidItem(item) ==
    /\ \A name \in DOMAIN item.names : item.names[name] # ""
    /\ item.title # ""
    /\ item.content # <<>>
    /\ item.digest = Stripped(item.content)
    /\ item.flags.kinds = {item.media[i].kind : i \in DOMAIN item.media}
    /\ item.flags.review = item.rights.review
    /\ Len(item.media) <= MaxMedia

\* SourceNormalizerRegistry.normalize: the normalizer of the item's source, and
\* the validation of what it made.
Normalize ==
    /\ verdict = "raw"
    /\ IF AddressesAreSound(raw) /\ ValidItem(Normalized(raw))
       THEN verdict' = "normalized" /\ doc' = Normalized(raw)
       ELSE verdict' = "refused" /\ doc' = raw
    /\ UNCHANGED raw

----------------------------------------------------------------------------
(* ContentAdmissionPolicy.evaluate. *)

TopicsIn(item, fields) == {item.topics[f] : f \in DOMAIN item.topics \cap fields}

\* _matches_metadata on the labels, then _contains_phrase on the title and the
\* trail; of the body nothing is read.
Excluded(item) ==
    LET labels    == TopicsIn(item, Fields(item.source) \ {"title", "trail"})
        editorial == TopicsIn(item, {"title", "trail"})
    IN  (labels \cup editorial) \cap {"politics", "sports"}

\* The run records the topic, politics before sports, or stores the item.
Admit ==
    /\ verdict = "normalized"
    /\ verdict' = IF Excluded(doc) = {} THEN "stored" ELSE "excluded"
    /\ UNCHANGED <<raw, doc>>

ItemNext == Normalize \/ Admit
ItemSpec == ItemInit /\ [][ItemNext]_itemVars

\* _publish_eligible: media of a stored item that may be published unseen.
PublishEligible(rights) ==
    /\ ~rights.review
    /\ rights.declared.republication = "yes"
    /\ rights.declared.derivatives # "no"

----------------------------------------------------------------------------

(* An item whose title, identity and names say something, and whose addresses *)
(* can be made canonical, is never lost to normalization: no combination of   *)
(* media, missing body, fallback title, empty paragraph and derived flags is  *)
(* refused by the model the normalizer fills in, except a Guardian or Dazhong *)
(* body of marks, a quote of marks, and a Pikabu story of more media than that*)
(* model holds.                                                               *)
SayingItemIsNormalized ==
    verdict = "refused" =>
        \/ raw.title = "marks"
        \/ \E name \in DOMAIN raw.names : raw.names[name] = "marks"
        \/ ~AddressesAreSound(raw)
        \/ raw.body = "marks" /\ raw.source # "reddit"
        \/ \E i \in DOMAIN raw.blocks :
              raw.blocks[i].kind = "quote" /\ raw.blocks[i].text = "marks"
        \/ /\ raw.source = "pikabu"
           /\ Cardinality(Range(Extracted(raw.blocks))) > MaxMedia

(* Media may be published without a person only if the declaration of its     *)
(* source says that it may be, and never when permission was asked for.       *)
UnclearedIsNotPublished ==
    verdict = "stored" /\ PublishEligible(doc.rights) =>
        /\ raw.rights.republication = "yes"
        /\ raw.rights.status \in {"attribution_license", "public_domain"}

=============================================================================
