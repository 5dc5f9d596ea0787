\* The times in thirds of the request timeout: 10 s, 20 s, and the delay of 250 ms
\* rounded up.
SPECIFICATION Spec
CONSTANTS
  Names = {"openai", "opencode-zen", "openrouter", "codex", "other"}
  Models = {"b"}
  Urls = {"openrouter"}
  EnvMode = "remote"
  EnvUrl = ""
  EnvProvider = "openai"
  EnvKeys = {"openai"}
  Fallback <- SameProvider
  MaxAttempts = 2
  Budget = 6
  RequestTimeout = 3
  RetryDelay = 1
  MaxRoute = 2
  MaxSaves = 1
INVARIANTS TypeOK WithinBudget FailsOver TestedIsServed
