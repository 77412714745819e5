SPECIFICATION CatalogueSpec
CONSTANTS
  Grain = 2
  ScenarioInputs <- Inputs
  Spellings = {"shop", "SHOP.", "other"}
  Canonical <- CanonicalName
  Asked <- AskedHere
  Loaded <- IdsOfBuiltIns
  TypedCards <- TypedHere
  TypedNames <- NamesHere
  MaxSafeInteger = 4
  Configured = {1, 2}
  WebhookAllowlist <- HookList
  AllowedOrigins <- ShopOrigin
  Submitted <- Bodies
  Operators <- OperatorsHere
INVARIANTS
  TimelineAsAuthored
  CallbacksTruthful
  BuiltInsSound
  
  SelectionExact
  ValidatorCoherent
  LayersApart
CHECK_DEADLOCK FALSE
