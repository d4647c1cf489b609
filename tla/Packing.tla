------------------------------ MODULE Packing ------------------------------
(***************************************************************************)
(* What the client packs: the files of a plugin into a bundle and those of *)
(* a job into the build context, each by the lines of an ignore file       *)
(* (plugin/bundler and client/deploy.py). A path is a sequence of names; a *)
(* line is its sign, whether it starts and ends with a slash, and its      *)
(* parts.                                                                  *)
(***************************************************************************)
EXTENDS Naturals, Sequences, FiniteSets

CONSTANTS Sources,      \* paths of the files the user wrote
          Wildcards,    \* part of a line with a wildcard -> names it matches
          Lines,        \* lines that get written to the ignore file
          OutNames,     \* names given to the bundle
          MaxLines      \* bound on the lines

ASSUME PackingAssumption ==
    /\ Sources \subseteq Seq(STRING) \ {<<>>} /\ OutNames \subseteq STRING
    /\ Lines \subseteq [sign : {"+", "-"}, first : BOOLEAN, parts : Seq(STRING), last : BOOLEAN]
    /\ "*.zip" \in DOMAIN Wildcards

VARIABLES
    lines,      \* lines of .racetrackignore, and the same in .gitignore
    disk,       \* paths of the files in the directory
    bundle      \* what was written to the last bundle, first and last

packingVars == <<lines, disk, bundle>>

Line(sign, first, parts, last) == [sign |-> sign, first |-> first, parts |-> parts, last |-> last]
Manifest == <<"plugin-manifest.yaml">>
Archives == {<<name>> : name \in OutNames}

\* The lines that apply after those of the user; the other three are of the
\* same shapes.
DefaultLines == <<Line("-", FALSE, <<"*.zip">>, FALSE), Line("-", FALSE, <<".git">>, FALSE),
                  Line("-", FALSE, <<"*.pyc">>, FALSE), Line("-", TRUE, Manifest, FALSE)>>

DefaultsFirst == DefaultLines \o lines     \* mutant of AllLines

AllLines == lines \o DefaultLines

FnMatch(name, part) == name = part \/ (part \in DOMAIN Wildcards /\ name \in Wildcards[part])

MatchesBeginning(path, parts) ==
    Len(path) >= Len(parts) /\ \A i \in DOMAIN parts : FnMatch(path[i], parts[i])

MatchesEnd(path, parts) ==
    /\ Len(path) >= Len(parts)
    /\ \A i \in DOMAIN parts : FnMatch(path[Len(path) - Len(parts) + i], parts[i])

\* A single part is compared as written, with a slash at its end if it has one;
\* a line of no parts matches nothing, unless it starts with a slash.
MatchFilePattern(path, line) ==
    IF line.first THEN MatchesBeginning(path, line.parts)
    ELSE IF Len(line.parts) = 1
        THEN ~line.last /\ \E i \in DOMAIN path : FnMatch(path[i], line.parts[1])
    ELSE Len(line.parts) > 1 /\ MatchesEnd(path, line.parts)

\* The last line that matches decides.
MatchPath(path) ==
    LET found == {i \in DOMAIN AllLines : MatchFilePattern(path, AllLines[i])}
    IN  found # {} => AllLines[CHOOSE i \in found : \A j \in found : j <= i].sign = "+"

\* Directories that are left out are not looked into.
ListFiles == {path \in disk : \A n \in 1..Len(path) : MatchPath(SubSeq(path, 1, n))}

\* The files of a job that are sent along, as its .gitignore has them.
BuildContext == ListFiles

PackingInit == lines = <<>> /\ disk = Sources /\ bundle = <<>>

AddLine(line) ==
    /\ Len(lines) < MaxLines
    /\ lines' = Append(lines, line)
    /\ UNCHANGED <<disk, bundle>>

\* The archive is created in the directory before the files are listed, all
\* at once here, and the manifest is written to it last.
BundlePlugin(name) ==
    /\ disk' = disk \cup {<<name>>}
    /\ bundle' = <<{path \in disk' : MatchPath(path)}, Manifest>>
    /\ UNCHANGED lines

PackingNext ==
    \/ \E line \in Lines : AddLine(line)
    \/ \E name \in OutNames : BundlePlugin(name)

----------------------------------------------------------------------------
(* No bundle holds a bundle, itself or an earlier one, unless the user     *)
(* chose a name for it that does not end with .zip; and its manifest is    *)
(* written to it once, whatever the ignore file says.                      *)
BundleIsOfSources ==
    bundle # <<>> =>
        /\ Manifest \notin bundle[1]
        /\ \A path \in bundle[1] \ Sources : path[1] \notin Wildcards["*.zip"]

(* A name that a line leaves out, and no later line takes back, is not     *)
(* packed: neither the file nor what is below the directory, save for a    *)
(* line that ends with a slash.                                            *)
IgnoredIsLeftOut ==
    \A i \in DOMAIN lines :
        LET line == lines[i] IN
        line.sign = "-" /\ ~line.last /\ Len(line.parts) = 1 /\ ~line.first
            /\ (\A j \in (i + 1)..Len(lines) : lines[j].sign = "-")
        => \A path \in disk : MatchPath(path) \/ path \in BuildContext =>
               \A n \in DOMAIN path : ~FnMatch(path[n], line.parts[1])

(* By the same lines of the user, the bundle and the build context take    *)
(* the same files, except below a directory that is left out: there the    *)
(* context misses the files which a later line takes back, and those which *)
(* the line itself, of several parts, does not match.                      *)
ContextFitsBundle ==
    lines # <<>> => LET context == BuildContext IN
    \A path \in disk :
        /\ path \in context => MatchPath(path)
        /\ MatchPath(path) /\ path \notin context =>
               \E n \in 1..(Len(path) - 1), i \in DOMAIN AllLines :
                   LET directory == SubSeq(path, 1, n) IN
                   /\ ~MatchPath(directory)
                   /\ AllLines[i].sign = "-" /\ MatchFilePattern(directory, AllLines[i])
                   /\ MatchFilePattern(path, AllLines[i]) =>
                          \E j \in DOMAIN lines : j > i /\ lines[j].sign = "+" /\ MatchFilePattern(path, lines[j])

(* The ignore file decides what is packed, whichever way the source goes.  *)
FilesAreChosen == BundleIsOfSources /\ IgnoredIsLeftOut /\ ContextFitsBundle
=============================================================================
