------------------------------- MODULE Regions -------------------------------
(***************************************************************************)
(* Feeds and regions of feed.rs: the two tables of names, what a text      *)
(* names, and how a region is named again and put on the wire.             *)
(*                                                                         *)
(* A word is its letters in lower case and the case they are written in.   *)
(* A text is split at its first colon.                                     *)
(***************************************************************************)
EXTENDS Integers

Feeds == {"Harmonic", "Bam"}

\* The regions of a feed by name, with their numbers in the proto enumeration.
HARMONIC ==
    [ams |-> 1, ewr |-> 2, fra |-> 3, lon |-> 4, tyo |-> 5, sgp |-> 6, slc |-> 7]

BAM ==
    [ams |-> 1, dfw |-> 2, dub |-> 3, ewr |-> 4, fra |-> 5, hkg |-> 6, iad |-> 7,
     lax |-> 8, lon |-> 9, pit |-> 10, sea |-> 11, sin |-> 12, slc |-> 13,
     sqq |-> 14, tyo |-> 15]

Table(feed) == IF feed = "Harmonic" THEN HARMONIC ELSE BAM

\* The variants of HarmonicRegion and BamRegion; 0 is UNSPECIFIED.
Variants(feed) == IF feed = "Harmonic" THEN 0 .. 7 ELSE 0 .. 15

Region(feed, number) == [feed |-> feed, number |-> number]
RegionValues == UNION {{Region(f, n) : n \in Variants(f)} : f \in Feeds}

RegionError(kind) == [error |-> kind]

-----------------------------------------------------------------------------
Word(letters, case) == [letters |-> letters, case |-> case]
Text(feed, region) == [colon |-> TRUE, feed |-> feed, region |-> region]
NoColon == [colon |-> FALSE]

\* Region::parse, case insensitive.
Parse(feed, word) ==
    IF word.letters \in DOMAIN Table(feed)
    THEN Region(feed, Table(feed)[word.letters])
    ELSE RegionError("UnknownRegion")

\* Feed::from_str
FeedNames == [harmonic |-> "Harmonic", bam |-> "Bam"]

\* Region::from_str: the feed is looked up before the region.
FromStr(text) ==
    IF ~text.colon THEN RegionError("Format")
    ELSE IF text.feed.letters \notin DOMAIN FeedNames THEN RegionError("UnknownFeed")
    ELSE Parse(FeedNames[text.feed.letters], text.region)

FeedName(feed) == IF feed = "Harmonic" THEN "harmonic" ELSE "bam"

\* Region::name: the first name with this number.
NamesOf(region) ==
    {name \in DOMAIN Table(region.feed) : Table(region.feed)[name] = region.number}

Name(region) ==
    IF NamesOf(region) = {} THEN "unspecified" ELSE CHOOSE n \in NamesOf(region) : TRUE

\* Display
Display(region) == Text(Word(FeedName(region.feed), "lower"), Word(Name(region), "lower"))

\* into_proto: the number under the field of its feed.
IntoProto(region) ==
    IF region.feed = "Harmonic" THEN [harmonic_region |-> region.number]
    ELSE [bam_region |-> region.number]
=============================================================================
