---------------------------- MODULE LanguageTable ----------------------------
(***************************************************************************)
(* The table of languages that is compiled in as LANGUAGE_JSON (utils.h),   *)
(* entry by entry in the order of the source.  Of an entry the parser reads *)
(* its name, its group, whether it has a colour, and its extensions; only   *)
(* the extensions that more than one language lists are kept, because no    *)
(* other can be taken by the wrong language.                                *)
(*                                                                         *)
(* nlohmann::json keeps the keys of an object in byte order, not in the     *)
(* order of the source.  The two differ for a few entries, none of which    *)
(* changes its place among the languages that list one extension.           *)
(***************************************************************************)
EXTENDS Sequences

\* A language with a colour of its own, one without, and one that belongs to a
\* group and has none.  (No entry has both.)
Major(name, exts) == [name |-> name, group |-> "", color |-> TRUE, exts |-> exts]
Plain(name, exts) == [name |-> name, group |-> "", color |-> FALSE, exts |-> exts]
Child(group, name, exts) ==
  [name |-> name, group |-> group, color |-> FALSE, exts |-> exts]

Languages01 ==
  <<Major("1CEnterprise", {}), Major("ABAP", {}), Plain("ABNF", {}),
    Major("AGSScript", {".asc"}), Major("AMPL", {".mod"}), Major("ANTLR", {}),
    Major("APIBlueprint", {}), Major("APL", {}), Plain("ASN.1", {}), Major("ASP", {}),
    Major("ATS", {}), Major("ActionScript", {".as"}), Major("Ada", {}),
    Plain("AdobeFontMetrics", {}), Major("Agda", {}), Major("Alloy", {})>>

Languages02 ==
  <<Child("Shell", "AlpineAbuild", {}), Major("AngelScript", {".as"}),
    Plain("AntBuildSystem", {}), Plain("ApacheConf", {".vhost"}),
    Plain("Apex", {".cls"}), Child("Assembly", "ApolloGuidanceComputer", {}),
    Major("AppleScript", {}), Major("Arc", {}), Plain("AsciiDoc", {".asc"}),
    Major("AspectJ", {}), Major("Assembly", {".inc"}), Plain("Augeas", {}),
    Major("AutoHotkey", {}), Major("AutoIt", {}), Plain("Awk", {}),
    Major("Ballerina", {}), Major("Batchfile", {})>>

Languages03 ==
  <<Plain("Befunge", {}), Child("Yacc", "Bison", {}), Plain("BitBake", {".bb"}),
    Child("HTML", "Blade", {}), Plain("BlitzBasic", {".bb"}), Major("BlitzMax", {}),
    Plain("Bluespec", {}), Major("Boo", {}), Major("Brainfuck", {".b", ".bf"}),
    Plain("Brightscript", {}), Plain("Bro", {}), Major("C", {".h"}),
    Major("C#", {".cs", ".cake"}), Major("C++", {".cp", ".h", ".hh", ".inc", ".re"}),
    Plain("C-ObjDump", {}), Child("Haskell", "C2hsHaskell", {})>>

Languages04 ==
  <<Plain("CLIPS", {}), Plain("CMake", {}), Plain("COBOL", {}), Plain("COLLADA", {}),
    Child("CoffeeScript", "CSON", {}), Major("CSS", {}), Plain("CSV", {}),
    Plain("CWeb", {".w"}), Plain("Cap'nProto", {}), Plain("CartoCSS", {}),
    Major("Ceylon", {}), Major("Chapel", {}), Plain("Charity", {".ch"}),
    Plain("ChucK", {}), Major("Cirru", {}), Major("Clarion", {}), Major("Clean", {}),
    Major("Click", {})>>

Languages05 ==
  <<Major("Clojure", {}), Child("HTML", "ClosureTemplates", {}),
    Plain("CloudFirestoreSecurityRules", {}), Plain("CoNLL-U", {}),
    Major("CoffeeScript", {".cake"}), Major("ColdFusion", {}),
    Child("ColdFusion", "ColdFusionCFC", {}),
    Major("CommonLisp", {".lisp", ".cl", ".l", ".lsp"}),
    Major("CommonWorkflowLanguage", {}), Major("ComponentPascal", {".cp"}),
    Plain("Cool", {".cl"}), Plain("Coq", {".v"}), Plain("Cpp-ObjDump", {})>>

Languages06 ==
  <<Plain("Creole", {}), Major("Crystal", {}), Plain("Csound", {}),
    Plain("CsoundDocument", {}), Plain("CsoundScore", {}), Major("Cuda", {}),
    Plain("Cycript", {}), Child("Python", "Cython", {}), Major("D", {".d"}),
    Plain("D-ObjDump", {}), Plain("DIGITALCommandLanguage", {}), Major("DM", {}),
    Plain("DNSZone", {}), Plain("DTrace", {".d"}), Plain("DarcsPatch", {}),
    Major("Dart", {}), Major("DataWeave", {})>>

Languages07 ==
  <<Plain("Diff", {}), Major("Dockerfile", {}), Major("Dogescript", {}),
    Major("Dylan", {}), Major("E", {}), Plain("EBNF", {}), Major("ECL", {".ecl"}),
    Child("prolog", "ECLiPSe", {".ecl"}), Child("HTML", "EJS", {}), Plain("EML", {}),
    Major("EQ", {}), Plain("Eagle", {".sch", ".brd"}),
    Child("Python", "Easybuild", {}), Child("JavaScript", "EcereProjects", {}),
    Plain("EdjeDataCollection", {}), Major("Eiffel", {})>>

Languages08 ==
  <<Major("Elixir", {}), Major("Elm", {}), Major("EmacsLisp", {}),
    Major("EmberScript", {}), Major("Erlang", {".es"}), Major("F#", {".fs"}),
    Major("F*", {}), Plain("FIGletFont", {}), Major("FLUX", {".fx"}),
    Major("Factor", {}), Major("Fancy", {}), Major("Fantom", {}),
    Plain("FilebenchWML", {".f"})>>

Languages09 ==
  <<Child("RenderScript", "Filterscript", {".fs"}), Plain("Formatted", {".for"}),
    Major("Forth", {".f", ".for", ".fr", ".fs"}), Major("Fortran", {".f", ".for"}),
    Major("FreeMarker", {}), Major("Frege", {".fr"}), Plain("G-code", {".g"}),
    Plain("GAMS", {}), Plain("GAP", {".g", ".gd", ".tst"}),
    Plain("GCCMachineDescription", {".md"}), Plain("GDB", {}),
    Major("GDScript", {".gd"}), Plain("GLSL", {".frag", ".fs", ".shader"}),
    Plain("GN", {})>>

Languages10 ==
  <<Major("GameMakerLanguage", {".gml"}), Major("Genie", {".gs"}), Plain("Genshi", {}),
    Child("Shell", "GentooEbuild", {}), Child("Shell", "GentooEclass", {}),
    Plain("GerberImage", {}), Plain("GettextCatalog", {}), Major("Gherkin", {}),
    Major("Glyph", {}), Plain("GlyphBitmapDistributionFormat", {}),
    Major("Gnuplot", {}), Major("Go", {}), Major("Golo", {}), Major("Gosu", {".gs"}),
    Plain("Grace", {})>>

Languages11 ==
  <<Plain("Gradle", {}), Major("GrammaticalFramework", {}),
    Plain("GraphModelingLanguage", {".gml"}), Plain("GraphQL", {}),
    Plain("Graphviz(DOT)", {}), Major("Groovy", {}),
    Child("Groovy", "GroovyServerPages", {}), Plain("HCL", {}), Plain("HLSL", {".fx"}),
    Major("HTML", {".inc", ".st"}), Child("HTML", "HTML+Django", {}),
    Child("HTML", "HTML+ECR", {}), Child("HTML", "HTML+EEX", {}),
    Child("HTML", "HTML+ERB", {})>>

Languages12 ==
  <<Child("HTML", "HTML+PHP", {}), Plain("HTTP", {}), Plain("HXML", {}),
    Major("Hack", {".hh", ".php"}), Child("HTML", "Haml", {}),
    Child("HTML", "Handlebars", {}), Major("Harbour", {}), Major("Haskell", {}),
    Major("Haxe", {}), Major("HiveQL", {".q"}), Major("Hy", {}),
    Plain("HyPhy", {".bf"}), Major("IDL", {".pro"}), Plain("IGORPro", {}),
    Plain("INI", {".pro", ".properties"})>>

Languages13 ==
  <<Plain("IRClog", {}), Major("Idris", {}), Plain("Inform7", {}),
    Plain("InnoSetup", {}), Major("Io", {}), Major("Ioke", {}), Major("Isabelle", {}),
    Child("Isabelle", "IsabelleROOT", {}), Major("J", {}), Child("Lex", "JFlex", {}),
    Child("JavaScript", "JSON", {".yy"}), Child("JSON", "JSONwithComments", {})>>

Languages14 ==
  <<Plain("JSON5", {}), Child("JavaScript", "JSONLD", {}), Major("JSONiq", {}),
    Child("JavaScript", "JSX", {}), Plain("Jasmin", {".j"}), Major("Java", {}),
    Plain("JavaProperties", {".properties"}), Child("Java", "JavaServerPages", {}),
    Major("JavaScript", {".es", ".frag", ".gs"}), Child("Yacc", "Jison", {}),
    Child("Lex", "JisonLex", {}), Major("Jolie", {}), Major("Julia", {})>>

Languages15 ==
  <<Major("JupyterNotebook", {}), Major("KRL", {}), Plain("KiCadLayout", {}),
    Plain("KiCadLegacyLayout", {".brd"}), Plain("KiCadSchematic", {".sch"}),
    Plain("Kit", {}), Major("Kotlin", {}), Major("LFE", {}), Major("LLVM", {}),
    Major("LOLCODE", {}), Major("LSL", {}), Plain("LabVIEW", {}), Major("Lasso", {}),
    Child("HTML", "Latte", {}), Plain("Lean", {}), Child("CSS", "Less", {})>>

Languages16 ==
  <<Major("Lex", {".l"}), Plain("LilyPond", {}), Plain("Limbo", {".b", ".m"}),
    Plain("LinkerScript", {".x"}), Plain("LinuxKernelModule", {".mod"}),
    Plain("Liquid", {}), Child("Agda", "LiterateAgda", {}),
    Child("CoffeeScript", "LiterateCoffeeScript", {}),
    Child("Haskell", "LiterateHaskell", {}), Major("LiveScript", {".ls"}),
    Plain("Logos", {".x"}), Plain("Logtalk", {}), Major("LookML", {}),
    Plain("LoomScript", {".ls"}), Major("Lua", {".fcgi"}), Plain("M", {".m"}),
    Plain("M4", {".m4"})>>

Languages17 ==
  <<Child("M4", "M4Sugar", {".m4"}), Major("MAXScript", {".ms"}),
    Major("MQL4", {".mqh"}), Major("MQL5", {".mqh"}), Major("MTML", {}),
    Child("Forth", "MUF", {".m"}), Major("Makefile", {".d"}), Plain("Mako", {}),
    Plain("Markdown", {".md"}), Child("HTML", "Marko", {}), Major("Mask", {}),
    Plain("Mathematica", {".m", ".nb"})>>

Languages18 ==
  <<Major("Matlab", {".m"}), Plain("MavenPOM", {}), Major("Max", {}),
    Plain("MediaWiki", {}), Major("Mercury", {".m", ".moo"}), Major("Meson", {}),
    Major("Metal", {}), Plain("MiniD", {}), Major("Mirah", {}), Plain("Modelica", {}),
    Plain("Modula-2", {".mod"}), Major("Modula-3", {}),
    Plain("ModuleManagementSystem", {}), Plain("Monkey", {}),
    Plain("Moocode", {".moo"}), Plain("MoonScript", {}), Plain("Myghty", {})>>

Languages19 ==
  <<Major("NCL", {".ncl"}), Plain("NL", {".nl"}), Plain("NSIS", {}),
    Major("Nearley", {}), Major("Nemerle", {".n"}), Major("NetLinx", {}),
    Major("NetLinx+ERB", {}), Major("NetLogo", {}),
    Major("NewLisp", {".nl", ".lisp", ".lsp"}), Major("Nextflow", {}),
    Plain("Nginx", {".vhost"}), Major("Nim", {}), Plain("Ninja", {}), Major("Nit", {}),
    Major("Nix", {}), Major("Nu", {})>>

Languages20 ==
  <<Child("Python", "NumPy", {}), Major("OCaml", {}), Plain("ObjDump", {}),
    Major("Objective-C", {".m", ".h"}), Major("Objective-C++", {".mm"}),
    Major("Objective-J", {".j"}), Major("Omgrofl", {}), Plain("Opa", {}),
    Major("Opal", {}), Child("C", "OpenCL", {".cl"}),
    Plain("OpenEdgeABL", {".cls", ".w"}), Child("Shell", "OpenRCrunscript", {}),
    Plain("OpenSCAD", {}), Plain("OpenTypeFeatureFile", {}), Plain("Org", {}),
    Plain("Ox", {}), Major("Oxygene", {})>>

Languages21 ==
  <<Major("Oz", {}), Major("P4", {}), Major("PAWN", {".inc"}),
    Major("PHP", {".php", ".fcgi", ".inc"}), Major("PLSQL", {".ddl", ".prc", ".sql"}),
    Plain("PLpgSQL", {".sql"}), Plain("POV-RaySDL", {".inc"}), Major("Pan", {}),
    Major("Papyrus", {}), Major("Parrot", {}), Child("Parrot", "ParrotAssembly", {}),
    Child("Parrot", "ParrotInternalRepresentation", {}),
    Major("Pascal", {".inc", ".pp"})>>

Languages22 ==
  <<Major("Pep8", {}), Major("Perl", {".pl", ".cgi", ".fcgi", ".pm", ".t"}),
    Major("Perl6", {".pl", ".pm", ".t"}), Child("Roff", "Pic", {}),
    Plain("Pickle", {}), Plain("PicoLisp", {".l"}), Major("PigLatin", {}),
    Major("Pike", {}), Plain("Pod", {}), Major("PogoScript", {}), Plain("Pony", {}),
    Child("CSS", "PostCSS", {}), Major("PostScript", {}), Major("PowerBuilder", {})>>

Languages23 ==
  <<Major("PowerShell", {}), Major("Processing", {}), Major("Prolog", {".pl", ".pro"}),
    Major("PropellerSpin", {}), Plain("ProtocolBuffer", {}),
    Plain("PublicKey", {".asc"}), Child("HTML", "Pug", {}), Major("Puppet", {".pp"}),
    Plain("PureData", {}), Major("PureBasic", {}), Major("PureScript", {}),
    Major("Python", {".cgi", ".fcgi", ".rpy", ".spec"}),
    Child("Python", "Pythonconsole", {})>>

Languages24 ==
  <<Child("Python", "Pythontraceback", {}), Major("QML", {}), Plain("QMake", {".pro"}),
    Major("Quake", {}), Major("R", {".r"}), Major("RAML", {}), Plain("RDoc", {}),
    Plain("REALbasic", {}), Plain("REXX", {}), Child("HTML", "RHTML", {}),
    Plain("RMarkdown", {}), Plain("RPC", {".x"}), Plain("RPMSpec", {".spec"}),
    Major("RUNOFF", {".rno"}), Major("Racket", {}), Major("Ragel", {})>>

Languages25 ==
  <<Major("Rascal", {}), Plain("Rawtokendata", {}), Child("OCaml", "Reason", {".re"}),
    Major("Rebol", {".r"}), Major("Red", {}), Plain("Redcode", {}),
    Plain("RegularExpression", {}), Major("Ren'Py", {".rpy"}),
    Plain("RenderScript", {".rs"}), Major("Ring", {}), Plain("RobotFramework", {}),
    Major("Roff", {".l", ".ms", ".n", ".rno"}), Major("Rouge", {})>>

Languages26 ==
  <<Major("Ruby", {".fcgi", ".pluginspec", ".spec"}), Major("Rust", {".rs"}),
    Major("SAS", {}), Child("CSS", "SCSS", {}), Plain("SMT", {}), Plain("SPARQL", {}),
    Major("SQF", {}), Plain("SQL", {".sql", ".ddl", ".inc", ".prc"}),
    Plain("SQLPL", {".sql"})>>

Languages27 ==
  <<Major("SRecodeTemplate", {".srt"}), Child("Smalltalk", "STON", {}),
    Plain("SVG", {}), Child("Python", "Sage", {}), Major("SaltStack", {".sls"}),
    Child("CSS", "Sass", {}), Major("Scala", {".sc"}), Child("HTML", "Scaml", {}),
    Major("Scheme", {".sch", ".sls"}), Plain("Scilab", {".tst"}), Major("Self", {}),
    Plain("ShaderLab", {".shader"})>>

Languages28 ==
  <<Major("Shell", {".cgi", ".fcgi"}), Plain("ShellSession", {}), Major("Shen", {}),
    Major("Slash", {}), Major("Slice", {}), Child("HTML", "Slim", {}),
    Plain("Smali", {}), Major("Smalltalk", {".st", ".cs"}), Plain("Smarty", {}),
    Major("Solidity", {}), Major("SourcePawn", {".inc"})>>

Languages29 ==
  <<Plain("SplineFontDatabase", {}), Major("Squirrel", {}), Major("Stan", {}),
    Major("StandardML", {}), Plain("Stata", {}), Child("CSS", "Stylus", {}),
    Plain("SubRipText", {".srt"}), Child("CSS", "SugarSS", {}),
    Major("SuperCollider", {".sc"}), Major("Swift", {}), Major("SystemVerilog", {}),
    Major("TIProgram", {}), Plain("TLA", {}), Plain("TOML", {}), Plain("TXL", {}),
    Major("Tcl", {}), Child("Shell", "Tcsh", {})>>

Languages30 ==
  <<Major("TeX", {".cls", ".toc"}), Plain("Tea", {}), Major("Terra", {".t"}),
    Plain("Text", {".fr", ".nb", ".ncl"}), Plain("Textile", {}), Plain("Thrift", {}),
    Major("Turing", {".t"}), Plain("Turtle", {}), Child("HTML", "Twig", {}),
    Plain("TypeLanguage", {}), Major("TypeScript", {".ts", ".tsx"}),
    Child("C", "UnifiedParallelC", {})>>

Languages31 ==
  <<Plain("Unity3DAsset", {}), Child("Assembly", "UnixAssembly", {".ms"}),
    Plain("Uno", {}), Major("UnrealScript", {}), Plain("UrWeb", {}), Major("VCL", {}),
    Major("VHDL", {}), Major("Vala", {}), Major("Verilog", {".v"}),
    Major("Vimscript", {}), Major("VisualBasic", {".cls"}), Major("Volt", {}),
    Major("Vue", {}), Plain("WavefrontMaterial", {})>>

Languages32 ==
  <<Plain("WavefrontObject", {}), Plain("WebOntologyLanguage", {}),
    Major("WebAssembly", {}), Plain("WebIDL", {}), Plain("WindowsRegistryEntries", {}),
    Plain("WorldofWarcraftAddonData", {".toc"}), Child("C", "XBitMap", {}),
    Plain("XFontDirectoryIndex", {}), Child("C", "XPixMap", {".pm"}), Major("X10", {}),
    Major("XC", {}), Plain("XCompose", {})>>

Languages33 ==
  <<
    Plain("XML", {".gml", ".mm", ".mod", ".ncl", ".pluginspec", ".sch", ".ts", ".tsx"}),
    Plain("XPages", {}), Plain("XProc", {})>>

Languages34 ==
  <<Major("XQuery", {}), Plain("XS", {}), Major("XSLT", {}), Plain("Xojo", {}),
    Plain("Xtend", {}), Plain("YAML", {}), Plain("YANG", {}), Major("YARA", {}),
    Major("YASnippet", {}), Major("Yacc", {".yy"}), Major("Zephir", {}),
    Plain("Zimpl", {}), Plain("desktop", {}), Major("eC", {}), Plain("edn", {})>>

Languages35 ==
  <<Child("Shell", "fish", {}), Plain("mupad", {}), Major("nesC", {}),
    Major("ooc", {}), Major("q", {".q"}), Plain("reStructuredText", {}),
    Major("sed", {}), Major("wdl", {}), Major("wisp", {}), Major("xBase", {".ch"})>>

LanguageJson ==
  Languages01 \o Languages02 \o Languages03 \o Languages04 \o Languages05
  \o Languages06 \o Languages07 \o Languages08 \o Languages09 \o Languages10
  \o Languages11 \o Languages12 \o Languages13 \o Languages14 \o Languages15
  \o Languages16 \o Languages17 \o Languages18 \o Languages19 \o Languages20
  \o Languages21 \o Languages22 \o Languages23 \o Languages24 \o Languages25
  \o Languages26 \o Languages27 \o Languages28 \o Languages29 \o Languages30
  \o Languages31 \o Languages32 \o Languages33 \o Languages34 \o Languages35

=============================================================================
