--------------------------- MODULE ListingParser ---------------------------
(***************************************************************************)
(* RemoteToolchainHTMLParser of src/scripts/fetch-toolchains.py (lines   *)
(* 174-217) and the RemoteToolchain it builds (lines 145-149).            *)
(* html.parser.HTMLParser.feed calls the three handlers in document       *)
(* order; the page is modelled as that sequence of calls:                 *)
(*   [ev |-> "start", tag |-> t]   handle_starttag, also for a void      *)
(*                                  element such as <img>, which gets no  *)
(*                                  end tag;                               *)
(*   [ev |-> "end", tag |-> t]     handle_endtag (the code ignores t);    *)
(*   [ev |-> "data", text |-> d]   handle_data, one call per text node.   *)
(* A text d is the record of data.endswith(TAR_EXT) and of the tokens of *)
(* data.removesuffix(TAR_EXT).split("-"); a token is the sequence of its *)
(* "."-separated segments, strings; IntOf gives the int() of the numeral *)
(* ones, and int() raises ValueError on any other.                        *)
(* An exception raised by a handler ends feed() and the script.          *)
(***************************************************************************)
EXTENDS Naturals, Sequences, SequencesExt

CONSTANTS
    HostOS, HostCPU,   \* --host-os and --host-cpu, one-segment tokens
    IntOf              \* numeral string -> its value, as int() reads it

(* Lines 180-185: no toolchain and no open tag yet. *)
ParserInit == [tags |-> <<>>, toolchains |-> <<>>, error |-> "none"]

(* Line 148: [int(token) for token in version.split(".")]. *)
IntTokens(tok) == \A k \in 1..Len(tok) : tok[k] \in DOMAIN IntOf

Ints(tok) == [k \in 1..Len(tok) |-> IntOf[tok[k]]]

(* Lines 197-198. *)
HandleStartTag(st, tag) == [st EXCEPT !.tags = Append(@, tag)]

(* Lines 200-201: list.pop() on an empty list raises IndexError. *)
HandleEndTag(st) ==
    IF st.tags = <<>> THEN [st EXCEPT !.error = "IndexError"]
    ELSE [st EXCEPT !.tags = Front(@)]

(* Taking the text of any element inside a hyperlink, as if line 205   *)
(* tested "a" in self._tags.                                            *)
HandleDataInAnyLink(st, d) ==
    IF "a" \notin ToSet(st.tags) \/ ~d.tar THEN st
    ELSE IF Len(d.tokens) # 5 THEN st
    ELSE IF d.tokens[4] # <<HostOS>> \/ d.tokens[5] # <<HostCPU>> THEN st
    ELSE IF ~IntTokens(d.tokens[3]) THEN [st EXCEPT !.error = "ValueError"]
    ELSE [st EXCEPT !.toolchains =
            Append(@, [prefix |-> <<d.tokens[1], d.tokens[2]>>,
                       version |-> Ints(d.tokens[3])])]

(* Lines 203-217, with RemoteToolchain.__init__ (146-149): only the text *)
(* of an open <a> naming a tarball; five tokens, else a warning; the    *)
(* host must match; int() of a non-numeric segment raises ValueError.   *)
HandleData(st, d) ==
    IF st.tags = <<>> \/ Last(st.tags) # "a" \/ ~d.tar THEN st
    ELSE IF Len(d.tokens) # 5 THEN st
    ELSE IF d.tokens[4] # <<HostOS>> \/ d.tokens[5] # <<HostCPU>> THEN st
    ELSE IF ~IntTokens(d.tokens[3]) THEN [st EXCEPT !.error = "ValueError"]
    ELSE [st EXCEPT !.toolchains =
            Append(@, [prefix |-> <<d.tokens[1], d.tokens[2]>>,
                       version |-> Ints(d.tokens[3])])]

(* HTMLParser's dispatch of one call; after an exception nothing runs. *)
Handle(st, e) ==
    IF st.error # "none" THEN st
    ELSE CASE e.ev = "start" -> HandleStartTag(st, e.tag)
           [] e.ev = "end"   -> HandleEndTag(st)
           [] e.ev = "data"  -> HandleData(st, e.text)

(* Lines 83-85: parser.feed(page); parser.toolchains. *)
Feed(page) == FoldLeft(Handle, ParserInit, page)
=============================================================================
