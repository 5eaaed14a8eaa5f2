SPECIFICATION PagesSpec
CONSTANTS
    GallerySnippets <- MCSnippets
    Typed <- MCTyped
    NewIds <- MCNewIds
    Configuration <- MCConfiguration
    SerialSettings <- MCSerialSettings
    OtherIds <- MCOtherIds
    MaxTouches = 3  MaxOthers = 1
    ExpandSnippet <- ExpandGalleryTemplate
    Ports = {1, 2, 3}  NoPort = 0  MaxSelections = 4
    SeenPackets <- MCSeenPackets
    Schemas <- MCSchemas
    MaxSeen = 3
    Examples = {"e1", "e2"}  Empty = "empty"
    ExampleEntities <- MCExampleEntities
    PortOf <- MCPortOf
    Paths = {"p1", "p2"}  PortIds = {""}
    LoadedPorts <- MCLoadedPorts
    MaxActs = 5
    OpenPages = {"page1", "page2"}  Locales = {"en"}  Editors = {"monaco", "textarea"}
    MaxChanges = 2  MaxStops = 1
    LogFiles = {"f1", "f2"}  Configs = {"c1"}  NoArg = "none"  MaxDialogs = 3
    MaxConsents = 4
    MaxFiles = 4  KeepCount = 2  MaxListings = 3
    Devices <- MCDevices
    Automations <- MCAutomations
    Commanded <- MCCommanded
    Reporting <- MCReporting
    Names = {"n1", "n2"}  Nothing = Nothing  MaxAsked = 3
    MaxRecordings = 2  Slots = {1, 2}
    DashboardPorts = {"a", "b"}  EntityTypes = {"fan"}
INVARIANTS
    SnippetIsApplied SnippetIsMeant GalleryFollowsThePort WizardWritesItsChoice
    SettingsAgree PagesSettle EntityPageSettles
CHECK_DEADLOCK FALSE
