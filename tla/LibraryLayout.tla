----------------------------- MODULE LibraryLayout -----------------------------
(***************************************************************************)
(* Where a completed file goes in the library (crates/postprocess,         *)
(* organize.rs): a function of its path and of the hints of its transfer.  *)
(*                                                                         *)
(* A component of a path is a sequence of tokens <<kind, value>>:          *)
(*   word        any text the rules do not look at                         *)
(*   tag         a release tag that begins with digits, like 1080p         *)
(*   dash        a hyphen between blanks                                   *)
(*   number      up to three digits                                        *)
(*   year        four digits from 1900 to 2100                             *)
(*   mark        S01E02, value 1                                           *)
(*   spread      what becomes such a mark only when blanks, dots and       *)
(*               hyphens are dropped: S.01.E.02, or "Files 2 Eat"          *)
(*   season      Season 1                                                  *)
(*   group       [text]                                                    *)
(* A path is [dirs, stem, category]; the extension decides the category    *)
(* (classify.rs) and nothing else.  Hints are [media, music]; of a subpath *)
(* for music a component is a word, blank (or "."), up ("..") or a drive.  *)
(***************************************************************************)
EXTENDS Naturals, Sequences, SequencesExt, FiniteSetsExt

CONSTANTS
    CategoryFolder, TvFolder, MoviesFolder, AnimeFolder,    \* folder names
    Unknown,                                                \* "Unknown Title"
    Absent,                                                 \* no value (None)
    Values, Width,              \* values of tokens, and how many digits they begin with
    Tokens, Folders, Hints,     \* tokens of names, lists of directories, hints
    MaxTokens                   \* bound: tokens of a name

AllKinds == {"word", "tag", "dash", "number", "year", "mark", "spread", "season", "group"}

ASSUME LayoutAssumption ==
    /\ Tokens \subseteq AllKinds \X Values
    /\ Folders \subseteq Seq(Seq(AllKinds \X Values))
    /\ \A h \in Hints : h.music # Absent => h.music \in Seq({"word", "blank", "up", "drive"} \X Values)
    /\ Width \in [Values -> Nat] /\ MaxTokens \in Nat

VARIABLES src, hints

Digits == {"number", "year", "tag"}     \* what begins with a digit

Kinds(ts) == {ts[i][1] : i \in DOMAIN ts}

\* The first of these positions, or one past the end.
First(at, seq) == Min(at \cup {Len(seq) + 1})

Find(ts, kinds) == First({i \in DOMAIN ts : ts[i][1] \in kinds}, ts)

Before(ts, i) == SubSeq(ts, 1, i - 1)

\* What is left without the tokens of these kinds, in order.
Without(ts, kinds) ==
    LET kept == {i \in DOMAIN ts : ts[i][1] \notin kinds}
    IN [k \in 1 .. Cardinality(kept) |-> ts[CHOOSE i \in kept : Cardinality(kept \cap 1 .. i) = k]]

\* clean_title: separators, tags and brackets go.
CleanTitle(ts) == Without(ts, {"tag", "dash"})

\* Where split(" - ") cuts: two hyphens in a row share the blank between them.
Separators(ts) ==
    LET sep[i \in 0 .. Len(ts)] == i > 1 /\ i < Len(ts) /\ ts[i][1] = "dash" /\ ~sep[i - 1]
    IN {i \in DOMAIN ts : sep[i]}

Titled(ts) == IF CleanTitle(ts) = <<>> THEN <<<<"word", Unknown>>>> ELSE CleanTitle(ts)

\* The components of the path, and the first that has a token of these kinds.
Components == Append(src.dirs, src.stem)
Part(kinds) ==
    Append(Components, <<>>)[First({i \in DOMAIN Components : Kinds(Components[i]) \cap kinds # {}}, Components)]

FirstValue(kinds) == Part(kinds)[Find(Part(kinds), kinds)][2]

-----------------------------------------------------------------------------
(* media_kind_for: the whole path is searched, for a mark first, then for a  *)
(* season, then for a year; only then does the name decide whether it is a   *)
(* track of an album.                                                        *)

\* season_folder_hint: blanks are dropped, so the digits go on in what follows:
\* "Season 4 1080p" is season 41080.
SeasonHint ==
    LET hint == Part({"season"})
        part == SubSeq(hint, Find(hint, {"season"}), Len(hint))
        end == Find(Tail(part), AllKinds \ {"number", "year"})
        digits == SubSeq(part, 1, IF end < Len(part) /\ part[end + 1][1] = "tag" THEN end + 1 ELSE end)
    IN [i \in DOMAIN digits |-> digits[i][2]]

\* digits.parse::<u32>().ok(): a row of ten digits and more is no number.  (Of those
\* of ten the lower ones still are.)
Parses(row) == FoldSeq(LAMBDA value, n : n + Width[value], 0, row) < 10

\* The season is the row of numbers whose digits spell it.
FindSeason == IF Part({"mark", "spread"}) = <<>> THEN SeasonHint ELSE <<FirstValue({"mark", "spread"})>>

IsTrack == Cardinality(Separators(src.stem)) >= 2

HasSeason == Part({"mark", "spread"}) # <<>> \/ (Part({"season"}) # <<>> /\ Parses(SeasonHint))

MediaKind ==
    CASE HasSeason -> [kind |-> "tv", value |-> FindSeason]
      [] ~HasSeason /\ Part({"year"}) # <<>> ->
            [kind |-> "movie", value |-> FirstValue({"year"})]
      [] OTHER -> [kind |-> IF IsTrack THEN "music" ELSE "other", value |-> Absent]

-----------------------------------------------------------------------------
(* Titles. *)

\* Mutant: titles are cut at marks only.
TitleUncut == Titled(Before(src.stem, Find(src.stem, {"mark"})))

\* title_from_path: the name up to its mark or year.  A spread mark is found by
\* media_kind_for but not here, and the name then stays whole.
TitleFromPath ==
    Titled(CASE MediaKind.kind = "tv" -> Before(src.stem, Find(src.stem, {"mark"}))
             [] MediaKind.kind = "movie" -> Before(src.stem, Find(src.stem, {"year"}))
             [] OTHER -> src.stem)

\* A hyphen before digits; one past the end if there is none.
DashNumber(ts) ==
    First({k \in DOMAIN ts : k < Len(ts) /\ ts[k][1] = "dash" /\ ts[k + 1][1] \in Digits}, ts)

\* anime_title_from_path: without the leading groups and the hyphens after them, up
\* to the episode number, the mark, the season or the year, whichever comes first.
AnimeTitle ==
    LET grouped == src.stem # <<>> /\ src.stem[1][1] = "group"
        first == IF grouped THEN Find(src.stem, AllKinds \ {"group", "dash"}) ELSE 1
        rest == SubSeq(src.stem, first, Len(src.stem))
    IN Titled(Before(rest, Min({DashNumber(rest), Find(rest, {"mark", "season", "year"})})))

\* Mutant: only a hyphen and a number make an episode of a group's release.
NumberedRelease ==
    /\ src.stem # <<>> /\ src.stem[1][1] = "group"
    /\ \E i \in Separators(src.stem) : src.stem[i + 1][1] \in Digits

\* looks_like_anime: a group first, and a mark, a season or an episode number.
LooksLikeAnime ==
    /\ src.stem # <<>> /\ src.stem[1][1] = "group"
    /\ \/ Kinds(src.stem) \cap {"mark", "spread", "season"} # {}
       \/ \E i \in Separators(src.stem) : src.stem[i + 1][1] \in Digits

-----------------------------------------------------------------------------
(* destination_for_with_hints. *)

Music == IF hints.music = Absent THEN <<>> ELSE Without(hints.music, {"blank"})

\* Mutant: only what is left of the hint counts.
SubPathFiltered ==
    LET parts == Without(Music, {"drive"})
    IN IF parts = <<>> THEN Absent ELSE [i \in DOMAIN parts |-> <<parts[i]>>]

\* sanitize_rel_subpath: blank and "." components are dropped; "..", a drive or
\* nothing left void the hint.
SubPath ==
    IF Music = <<>> \/ {"up", "drive"} \cap Kinds(Music) # {} THEN Absent
    ELSE [i \in DOMAIN Music |-> <<Music[i]>>]

VideoFolder ==
    LET media == MediaKind
        anime == hints.media = "anime" \/ (hints.media = Absent /\ LooksLikeAnime)
        movie == hints.media = "movie" \/ (hints.media = Absent /\ ~anime /\ media.kind = "movie")
        title == IF anime THEN AnimeTitle ELSE TitleFromPath
        named == IF media.kind = "movie" THEN Append(title, <<"year", media.value>>) ELSE title
        base == IF anime /\ AnimeFolder # Absent THEN AnimeFolder ELSE TvFolder
    IN CASE movie -> <<MoviesFolder, named>>
         [] ~movie /\ media.kind = "tv" -> <<base, title, <<<<"season", media.value>>>>>>
         [] OTHER -> <<base, named>>

\* A track goes to its artist and album, or to a folder named like the one it
\* was in; with a mark, a season or a year in its path, to neither.
AudioFolder ==
    LET first == Min(Separators(src.stem))
        second == Min(Separators(src.stem) \ {first})
        music == CategoryFolder["audio"]
    IN CASE SubPath # Absent -> <<music>> \o SubPath
         [] SubPath = Absent /\ MediaKind.kind = "music" ->
                <<music, CleanTitle(Before(src.stem, first)), CleanTitle(SubSeq(src.stem, first + 1, second - 1))>>
         [] SubPath = Absent /\ MediaKind.kind = "other" /\ src.dirs # <<>> ->
                <<music, CleanTitle(Last(src.dirs))>>
         [] OTHER -> <<music>>

Destination ==
    CASE src.category = "video" -> VideoFolder
      [] src.category = "audio" -> AudioFolder
      [] OTHER -> <<CategoryFolder[src.category]>>

-----------------------------------------------------------------------------
(* Files as they come: any path and any hints, and then files of the same     *)
(* download and folder, whose names go on where the last one ends.            *)

AnyFile ==
    /\ src \in [dirs : Folders, stem : {<<t>> : t \in Tokens}, category : DOMAIN CategoryFolder]
    /\ hints \in Hints

NextFile ==
    /\ Len(src.stem) < MaxTokens
    /\ \E t \in Tokens : src' = [src EXCEPT !.stem = Append(@, t)]
    /\ UNCHANGED hints

LayoutSpec == AnyFile /\ [][NextFile]_<<src, hints>>

-----------------------------------------------------------------------------
(* Properties. *)

\* Every file goes to one of the configured folders of the library and never out
\* of it again, whatever its path and whatever subpath its transfer asks for
\* (sanitize_rel_subpath).
StaysInLibrary ==
    LET folders == Destination
    IN  /\ Head(folders) \in {CategoryFolder[c] : c \in DOMAIN CategoryFolder} \cup {TvFolder, MoviesFolder, AnimeFolder}
        /\ \A i \in 2 .. Len(folders) : Kinds(folders[i]) \cap {"up", "drive"} = {}

\* What follows the mark in the name of an episode, be it a year, numbers, tags or
\* another mark, does not matter: all episodes of a season that lie in one folder
\* of a download and are named alike up to the mark come to one folder of the
\* library, under any hint.  The rules look for the mark in the whole path, for
\* the title in the name, and for releases of a group in a way of their own.
SeasonKeptTogether ==
    [][src.category = "video" /\ "mark" \in Kinds(src.stem) => Destination' = Destination]_src

\* A film (no mark or season in its path) and what belongs to it, named alike up to
\* the year, come to one folder, unless what follows names an episode or a season,
\* or the release of a group, without a hint, may do so.
FilmKeptTogether ==
    [][/\ src.category = "video" /\ "year" \in Kinds(src.stem) /\ MediaKind.kind = "movie" /\ Part({"season"}) = <<>>
       /\ Last(src.stem')[1] \notin {"mark", "spread", "season"}
       /\ hints.media # Absent \/ Head(src.stem)[1] # "group"
       => Destination' = Destination]_src
=============================================================================
