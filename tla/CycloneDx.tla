------------------------------ MODULE CycloneDx -------------------------------
(***************************************************************************)
(* CycloneDX: what Harbor takes for an SBOM, and what it takes from one.   *)
(* The types name the fields the program reads, and those whose lack or    *)
(* whose value makes serde refuse the whole document.                      *)
(***************************************************************************)
EXTENDS HttpClient, Sequences, Integers

ComponentType ==
  {"application", "framework", "library", "container", "operating-system", "device",
   "firmware", "file"}

Component ==
  [type : ComponentType, name : STRING, cpe : Option(STRING), purl : Option(STRING)]

Metadata == [component : Option(Component)]

Bom ==
  [bomFormat : {"CycloneDX"}, specVersion : STRING, version : Int,
   metadata : Option(Metadata), components : Option(Seq(Component))]

\* Bom::parse.
Parse(raw) == FromSlice(raw, Bom)

\* Bom::component, Bom::cpe and Bom::purl.
BomComponent(bom) == UNION {metadata.component : metadata \in bom.metadata}
BomCpe(bom) == UNION {component.cpe : component \in BomComponent(bom)}
BomPurl(bom) == UNION {component.purl : component \in BomComponent(bom)}

\* The Package URLs of the components that have one, in their order.
DependencyPurls(bom) ==
  LET named == SelectSeq(UnwrapOr(bom.components, <<>>), LAMBDA c : c.purl # None)
  IN  [n \in DOMAIN named |-> Unwrap(named[n].purl)]

\* Package::from_bom, by way of PackageCdx::from_bom.
PackageFromBom(bom) ==
  IF BomComponent(bom) = None \/ BomPurl(bom) = None THEN Err("Entity")
  ELSE Ok([purl |-> Unwrap(BomPurl(bom)), cpe |-> BomCpe(bom),
           dependencies |-> DependencyPurls(bom)])

\* Mutant of Unnamed: an SBOM whose own Package URL is empty is taken.
UnnamedOnly(bom) == BomPurl(bom) = None

Unnamed(bom) == BomPurl(bom) \in {None, Some("")}

\* Sbom::from_raw_cdx takes an SBOM only if its own Package URL is there and not empty,
\* and makes a dependency of every component that has a Package URL, an empty one too.
FromRawCdx(raw) ==
  LET parsed == Parse(raw)
  IN  IF ~parsed.ok THEN Err("Entity")
      ELSE LET bom == Unwrap(parsed.value)
           IN  IF Unnamed(bom) \/ ~PackageFromBom(bom).ok THEN Err("Entity")
               ELSE Ok([purl |-> Unwrap(BomPurl(bom)),
                        package |-> PackageFromBom(bom).value,
                        dependencies |-> DependencyPurls(bom)])
===============================================================================
